---- MODULE Spec2Model ----
(***************************************************************************)
(* Model of the DIESEL mint monitor (src/src/services/dieselMonitor.js)    *)
(* and of the part of the ledger client it drives                          *)
(* (src/src/services/bitcoinRPC.js).                                       *)
(*                                                                         *)
(* Units.  The node reports amounts in BTC and the code multiplies by      *)
(* 100000000; the model keeps every amount in satoshi, so the factor is    *)
(* absorbed by the unit.  A fee rate is a JavaScript double in the code;   *)
(* here it is the exact fraction [n |-> fee, d |-> vsize] and is compared  *)
(* by cross-multiplication.  null is the fraction with d = 0.              *)
(*                                                                         *)
(* Atomicity.  A handler runs to completion between two awaits, so one     *)
(* action is the code from the resumption of one await to the next await   *)
(* (or to the return of the async function).                               *)
(***************************************************************************)
EXTENDS Integers, Sequences, FiniteSets, TLC

----------------------------------------------------------------------------
(* Bounds of the model and scaled configuration values                     *)

\* heights the ledger can reach
MaxHeight == 2
\* transactions in one block of the ledger
MaxBlockTxs == 2
\* calls of start() over a run
MaxStarts == 1
\* scanNewBlocks() cycles that can be in flight together
MaxBlockCycles == 1
\* scanMempool() cycles that can be in flight together
MaxMempoolCycles == 1
\* the same three bounds for the specification of the life cycle
LifeStarts == 2
LifeCycles == 2
\* config.alkanes.diesel.maxHistoryRecords (50 in src/src/index.js), scaled
maxHistoryRecords == 2
\* batchSize of scanMempool (10 in the source), scaled
batchSize == 2
\* the default batchSize of getBatchMempoolTransactions (5 in the source),
\* half of the batch of scanMempool as in the source
batchConcurrency == 1
\* inputs / outputs of a transaction drawn for the fee calculator
MaxIo == 2
\* largest amount and size drawn for the fee calculator
MaxAmount == 2
\* largest weight drawn for the fee calculator
MaxWeight == 5
\* how far Date.now() advances beyond StartTime, in days
MaxAge == 2
\* largest limit passed to getRecentMintTransactions
MaxLimit == 3
\* bytes of an output script after its first byte, and outputs of a
\* transaction, drawn for the classifier
MaxScriptBytes == 2
MaxClsOutputs == 2
\* calls of BitcoinRPC.call made one after the other
MaxRpcCalls == 2

\* validity floor of findWinningTransaction: feeRate > 1
WinnerFloor == 1
\* MIN_FEE_RATE of scanMempool
MIN_FEE_RATE == 10
\* maxRetries of the batch loop of scanMempool
maxRetries == 3
\* slice(0, 3) of the top list of scanMempool
TopK == 3
\* this.maxRetries of BitcoinRPC
rpcMaxRetries == 2

----------------------------------------------------------------------------
(* Fee rates as exact fractions                                            *)

Null == [n |-> 0, d |-> 0]
\* the number NaN, which compares false with every number
NaN == [n |-> 0, d |-> 0 - 1]
IsNaN(r) == r.d < 0
Rate(n, d) == [n |-> n, d |-> d]
Zero == Rate(0, 1)
IsNull(r) == r.d = 0
\* a > b, a >= b on non-null rates
RGt(a, b) == a.n * b.d > b.n * a.d
RGe(a, b) == a.n * b.d >= b.n * a.d
\* rate > k, rate >= k for an integer k
RGtInt(r, k) == r.n > k * r.d
RGeInt(r, k) == r.n >= k * r.d

RECURSIVE SumSeq(_)
SumSeq(s) == IF s = <<>> THEN 0 ELSE Head(s) + SumSeq(Tail(s))

Range(s) == {s[i] : i \in DOMAIN s}

----------------------------------------------------------------------------
(* Transactions                                                            *)

\* an input: prevout present or not, and its value (0 is falsy in the code)
Vin(has, v) == [hasPrevout |-> has, value |-> v]
\* an output: value, scriptPubKey.type = 'nulldata', hex starts with '6a',
\* hex contains the DIESEL pattern
Vout(v, nd, h6a, pat) == [value |-> v, nulldata |-> nd, hex6a |-> h6a, pattern |-> pat]

MintOut == Vout(0, TRUE, TRUE, TRUE)
PayOut(v) == Vout(v, FALSE, FALSE, FALSE)

Tx(vin, vout, vsize, size, weight, feeBase) ==
  [vin |-> vin, vout |-> vout, vsize |-> vsize, size |-> size,
   weight |-> weight, feeBase |-> feeBase]

\* The ledger's transactions: txid |-> transaction (feeBase is fees.base of
\* the mempool entry of the transaction).
\*  1: mint, fee 24 / vsize 2  = 12
\*  2: mint, fee 40 / vsize 1  = 40
\*  3: mint, one input resolved (30) and one not, outputs 10
\*  4: mint, no input resolved, outputs 5
\*  5: no data-carrier output, fee 50 / vsize 1
\*  6: mint, fee 1 / vsize 2 = 0.5
\*  7: mint, fee 12 / vsize 1 = 12, the rate of 1
TxCatalog ==
  <<Tx(<<Vin(TRUE, 24)>>, <<MintOut>>, 2, 2, 8, 24),
    Tx(<<Vin(TRUE, 45)>>, <<MintOut, PayOut(5)>>, 1, 1, 4, 40),
    Tx(<<Vin(TRUE, 30), Vin(FALSE, 0)>>, <<MintOut, PayOut(10)>>, 1, 1, 4, 35),
    Tx(<<Vin(FALSE, 0)>>, <<MintOut, PayOut(5)>>, 1, 1, 4, 15),
    Tx(<<Vin(TRUE, 60)>>, <<PayOut(10)>>, 1, 1, 4, 50),
    Tx(<<Vin(TRUE, 1)>>, <<MintOut>>, 2, 2, 8, 1),
    Tx(<<Vin(TRUE, 12)>>, <<MintOut>>, 1, 1, 4, 12)>>

TxIds == DOMAIN TxCatalog

----------------------------------------------------------------------------
(* FeeRateCalculator                                                       *)

\* a value that Number() turns into NaN: a string that is no number, an
\* object
NotANumber == 0 - 1

InputValue(vin) == IF vin.hasPrevout /\ vin.value # 0 THEN vin.value ELSE 0
OutputValue(vout) == vout.value

\* inputSum or outputSum is NaN: Number(value) of a counted value is NaN
sumIsNaN(tx) ==
  \/ \E i \in DOMAIN tx.vin : InputValue(tx.vin[i]) = NotANumber
  \/ \E i \in DOMAIN tx.vout : OutputValue(tx.vout[i]) = NotANumber

inputSum(tx) == SumSeq([i \in DOMAIN tx.vin |-> InputValue(tx.vin[i])])
outputSum(tx) == SumSeq([i \in DOMAIN tx.vout |-> OutputValue(tx.vout[i])])

\* tx.vsize || tx.size || (tx.weight ? Math.ceil(tx.weight / 4) : 0)
txVsize(tx) ==
  IF tx.vsize # 0 THEN tx.vsize
  ELSE IF tx.size # 0 THEN tx.size
  ELSE IF tx.weight # 0 THEN (tx.weight + 3) \div 4
  ELSE 0

calculateFeeRate(tx) ==
  LET fee == inputSum(tx) - outputSum(tx)
      vsize == txVsize(tx)
  IN  IF vsize = 0 THEN Null
      ELSE IF sumIsNaN(tx) THEN NaN
      ELSE IF fee <= 0 THEN Null
      ELSE Rate(fee, vsize)

----------------------------------------------------------------------------
(* TransactionClassifier                                                   *)

isOpReturnOutput(vout) == vout.nulldata \/ vout.hex6a

isDieselMintTransaction(tx) ==
  \E i \in DOMAIN tx.vout : isOpReturnOutput(tx.vout[i]) /\ tx.vout[i].pattern

hasOpReturn(tx) ==
  \E i \in DOMAIN tx.vout : tx.vout[i].nulldata \/ tx.vout[i].hex6a

\* A script as the node reports it: scriptPubKey.type and scriptPubKey.hex,
\* the hex string being a sequence of hexadecimal digits (0..15), two for
\* each byte of the script.
ScriptOut(type, hex) == [type |-> type, hex |-> hex]

\* '6a', the two digits of the OP_RETURN opcode
OpReturnHex == <<6, 10>>
\* 'ff7f818cec82d08bc0a88281d215' (14 bytes), scaled to the one byte 'f7'
DieselPattern == <<15, 7>>

\* String.prototype.startsWith and String.prototype.includes on digit strings
startsWith(hex, prefix) ==
  Len(hex) >= Len(prefix) /\ SubSeq(hex, 1, Len(prefix)) = prefix
includes(hex, pattern) ==
  \E k \in 0..(Len(hex) - Len(pattern)) : SubSeq(hex, k + 1, k + Len(pattern)) = pattern

\* what isDieselMintTransaction reads of an output (lines 592-608)
voutOf(o) ==
  Vout(0, o.type = "nulldata", startsWith(o.hex, OpReturnHex),
       includes(o.hex, DieselPattern))

\* isDieselMintTransaction(tx) on a transaction whose outputs are scripts
classifyScripts(tx) ==
  isDieselMintTransaction(
    Tx(tx.vin, [i \in DOMAIN tx.vout |-> voutOf(tx.vout[i])], 1, 1, 4, 0))

----------------------------------------------------------------------------
(* CompetitionTracker: the operations on the in-memory state               *)

\* a confirmed mint (mintInfo of processBlock); blockTime, sender and
\* timestamp are carried by the code and read by no operation modelled here
MintInfo(txid, height, feeRate) ==
  [txid |-> txid, blockHeight |-> height, feeRate |-> feeRate]

NoTx == 0
NoWinner == MintInfo(NoTx, 0, Null)

\* the trim keeps the head of the log: slice(0, maxHistoryRecords)
addDieselMintTransactionKeepOldest(hist, mintInfo) ==
  LET h == Append(hist, mintInfo)
  IN  IF Len(h) > maxHistoryRecords
      THEN SubSeq(h, 1, maxHistoryRecords)
      ELSE h

\* push, then slice(-maxHistoryRecords) when over capacity
addDieselMintTransaction(hist, mintInfo) ==
  LET h == Append(hist, mintInfo)
  IN  IF Len(h) > maxHistoryRecords
      THEN SubSeq(h, Len(h) - maxHistoryRecords + 1, Len(h))
      ELSE h

\* Array.prototype.slice(start) on an integer start: a negative start counts
\* from the end, and -0 is 0
slice(s, start) ==
  LET len == Len(s)
      from == IF start < 0
              THEN (IF len + start > 0 THEN len + start ELSE 0)
              ELSE (IF start < len THEN start ELSE len)
  IN  SubSeq(s, from + 1, len)

\* this.dieselMintTransactions.slice(-limit)
getRecentMintTransactions(log, limit) == slice(log, 0 - limit)

\* the winner is the valid mint with the highest fee rate
findWinningTransactionHighestFee(mintTransactions) ==
  LET valid == {i \in DOMAIN mintTransactions :
                  RGtInt(mintTransactions[i].feeRate, WinnerFloor)}
  IN  IF valid = {} THEN NoWinner
      ELSE mintTransactions[CHOOSE i \in valid : \A j \in valid :
             \/ RGt(mintTransactions[i].feeRate, mintTransactions[j].feeRate)
             \/ (~RGt(mintTransactions[j].feeRate, mintTransactions[i].feeRate) /\ i <= j)]

\* filter(tx => tx.feeRate > 1)[0], null when there is none
findWinningTransaction(mintTransactions) ==
  IF mintTransactions = <<>> THEN NoWinner
  ELSE LET validTransactions ==
             SelectSeq(mintTransactions, LAMBDA m : RGtInt(m.feeRate, WinnerFloor))
       IN  IF validTransactions = <<>> THEN NoWinner
           ELSE Head(validTransactions)

\* highestGasRate; blockHeight 0 stands for the field being absent
Highest(txid, feeRate, height) ==
  [txid |-> txid, feeRate |-> feeRate, blockHeight |-> height]

InitialHighest == Highest(NoTx, Zero, 0)

\* the record is overwritten without the comparison
updateHighestGasRateUnguarded(cur, txid, feeRate) == Highest(txid, feeRate, 0)

\* updateHighestGasRate(txid, feeRate, sender) on the record cur
updateHighestGasRate(cur, txid, feeRate) ==
  IF RGt(feeRate, cur.feeRate) THEN Highest(txid, feeRate, 0) ELSE cur

\* the record is replaced by a winner of the same rate too
processBlockHighestOrEqual(cur, winningTransaction, height) ==
  IF RGe(winningTransaction.feeRate, cur.feeRate)
  THEN Highest(winningTransaction.txid, winningTransaction.feeRate, height)
  ELSE cur

\* the record update at the end of processBlock
processBlockHighest(cur, winningTransaction, height) ==
  IF RGt(winningTransaction.feeRate, cur.feeRate)
  THEN Highest(winningTransaction.txid, winningTransaction.feeRate, height)
  ELSE cur

\* pendingMintTransactions is a Map txid -> mintInfo, modelled as a function
\* on the set of its keys
EmptyPending == [t \in {} |-> 0]

PendingInfo(feeRate, timestamp) == [feeRate |-> feeRate, timestamp |-> timestamp]

pendingSet(p, txid, info) ==
  [t \in (DOMAIN p) \cup {txid} |-> IF t = txid THEN info ELSE p[t]]

clearConfirmedMempoolTransactions(p, confirmedTxids) ==
  [t \in (DOMAIN p) \ Range(confirmedTxids) |-> p[t]]

----------------------------------------------------------------------------
(* Events                                                                  *)

Ev(type, txid, feeRate, height) ==
  [type |-> type, txid |-> txid, feeRate |-> feeRate, height |-> height,
   count |-> 0, top |-> <<>>]

MempoolEv(highest, count, top) ==
  [type |-> "mempool-update", txid |-> highest.txid, feeRate |-> highest.feeRate,
   height |-> 0, count |-> count, top |-> top]

----------------------------------------------------------------------------
(* processBlock after the block has been fetched (lines 131-207)           *)

\* the mints of the block that reach blockDieselMints, in block order
blockDieselMints(height, txids) ==
  LET kept == SelectSeq(txids, LAMBDA t :
                /\ isDieselMintTransaction(TxCatalog[t])
                /\ ~IsNull(calculateFeeRate(TxCatalog[t])))
  IN  [i \in DOMAIN kept |-> MintInfo(kept[i], height, calculateFeeRate(TxCatalog[kept[i]]))]

RECURSIVE addAll(_, _)
addAll(hist, mints) ==
  IF mints = <<>> THEN hist
  ELSE addAll(addDieselMintTransaction(hist, Head(mints)), Tail(mints))

\* the winner is announced before the mints of its block
processBlockEventsWinnerFirst(mints, winner, cur, height) ==
  (IF winner.txid # NoTx
   THEN <<Ev("diesel-won", winner.txid, winner.feeRate, height)>>
   ELSE <<>>)
  \o [i \in DOMAIN mints |-> Ev("new-mint", mints[i].txid, mints[i].feeRate, height)]
  \o (IF winner.txid # NoTx /\ RGt(winner.feeRate, cur.feeRate)
      THEN <<Ev("highest-gas-updated", winner.txid, winner.feeRate, height)>>
      ELSE <<>>)

\* lines 175 (new-mint of each kept mint, line 741), 190 (diesel-won) and 201
\* (highest-gas-updated), in the order the code reaches them
processBlockEvents(mints, winner, cur, height) ==
  [i \in DOMAIN mints |-> Ev("new-mint", mints[i].txid, mints[i].feeRate, height)]
  \o (IF winner.txid # NoTx
      THEN <<Ev("diesel-won", winner.txid, winner.feeRate, height)>>
      ELSE <<>>)
  \o (IF winner.txid # NoTx /\ RGt(winner.feeRate, cur.feeRate)
      THEN <<Ev("highest-gas-updated", winner.txid, winner.feeRate, height)>>
      ELSE <<>>)

----------------------------------------------------------------------------
(* scanMempool: the pure parts                                             *)

\* 24 * 60 * 60 * 1000 ms, in the model's time unit (one day)
EntryTtl == 1
\* Date.now() at construction, in days: any value above EntryTtl
StartTime == 2

\* (fees.base * 100000000) / (vsize || size) of a mempool entry; a missing
\* divisor gives NaN, which fails every comparison, like Null here
approxFeeRate(t) ==
  LET e == TxCatalog[t]
      d == IF e.vsize # 0 THEN e.vsize ELSE e.size
  IN  IF d = 0 THEN Null ELSE Rate(e.feeBase, d)

isHighFee(t) == ~IsNull(approxFeeRate(t)) /\ RGeInt(approxFeeRate(t), MIN_FEE_RATE)

\* sort((a, b) => b.feeRate - a.feeRate); equal rates keep the order of the
\* snapshot's keys, taken here as the order of the ids
RECURSIVE sortByRateDesc(_)
sortByRateDesc(S) ==
  IF S = {} THEN <<>>
  ELSE LET top == CHOOSE t \in S : \A u \in S :
                    \/ RGt(approxFeeRate(t), approxFeeRate(u))
                    \/ (~RGt(approxFeeRate(u), approxFeeRate(t)) /\ t <= u)
       IN  <<top>> \o sortByRateDesc(S \ {top})

\* the prefilter without the threshold and without the processed test
highFeeRateTxsUnfiltered(snapshot, processed) ==
  sortByRateDesc({t \in snapshot : ~IsNull(approxFeeRate(t))})

\* lines 295-324: the new high-fee ids of the snapshot, highest rate first
highFeeRateTxs(snapshot, processed) ==
  sortByRateDesc({t \in snapshot : t \notin processed /\ isHighFee(t)})

Min(a, b) == IF a <= b THEN a ELSE b

\* txBatches[i] (i from 0)
txBatch(queue, i) ==
  SubSeq(queue, i * batchSize + 1, Min((i + 1) * batchSize, Len(queue)))

\* a last batch that is not full is left out
batchCountFloor(queue) == Len(queue) \div batchSize

batchCount(queue) == (Len(queue) + batchSize - 1) \div batchSize

\* bitcoinRPC.js line 150: the ids of the batch that the node's mempool holds
validTxidsOf(txids, mempoolContents) ==
  SelectSeq(txids, LAMBDA t : t \in mempoolContents)

\* bitcoinRPC.js line 154: validTxids.slice(g, g + batchSize)
fetchGroup(valid, g) ==
  SubSeq(valid, g + 1, Min(g + batchConcurrency, Len(valid)))

\* every transaction asked for is put in the map, fetched or not
resultSetAlways(result, txid, ok) == result \cup {txid}

\* bitcoinRPC.js lines 170-174: a fetched transaction is put in the map, the
\* null of a failed fetch is not
resultSet(result, txid, ok) == IF ok THEN result \cup {txid} ELSE result

\* the wait before a retry is the same after every failure
retryDelayMsFixed(retryCount) == 1000

\* delay(1000 * retryCount) of line 384, in milliseconds
retryDelayMs(retryCount) == 1000 * retryCount

\* the batch is given up after its second failure
retryBatchTwice(retryCount) == retryCount < maxRetries - 1

\* while (retryCount < maxRetries) of line 349, after retryCount++ of line 365
retryBatch(retryCount) == retryCount < maxRetries

\* lines 403-435 for the fetched ids, in the order of txDetailsMap
RECURSIVE classifyAll(_, _, _, _)
classifyAll(ids, pending, highest, time) ==
  IF ids = <<>> THEN [pending |-> pending, highest |-> highest]
  ELSE LET txid == Head(ids)
           tx == TxCatalog[txid]
           feeRate == approxFeeRate(txid)
       IN  IF hasOpReturn(tx) /\ isDieselMintTransaction(tx)
           THEN classifyAll(Tail(ids),
                            pendingSet(pending, txid, PendingInfo(feeRate, time)),
                            updateHighestGasRate(highest, txid, feeRate),
                            time)
           ELSE classifyAll(Tail(ids), pending, highest, time)

\* only the ids that left the snapshot are deleted
evictProcessedGone(processed, snapshot, pending, currentTime) ==
  {t \in processed : t \in snapshot}

\* lines 437-442: the ids that stay in processedTxids
evictProcessed(processed, snapshot, pending, currentTime) ==
  LET expireTime == currentTime - EntryTtl
      stamp(t) == IF t \in DOMAIN pending THEN pending[t].timestamp ELSE 0
  IN  {t \in processed : ~(t \notin snapshot \/ stamp(t) < expireTime)}

\* lines 445-447: the pending entries by fee rate, highest first, at most 3
RECURSIVE sortPendingDesc(_, _)
sortPendingDesc(pending, S) ==
  IF S = {} THEN <<>>
  ELSE LET top == CHOOSE t \in S : \A u \in S :
                    \/ RGt(pending[t].feeRate, pending[u].feeRate)
                    \/ (~RGt(pending[u].feeRate, pending[t].feeRate) /\ t <= u)
       IN  <<[txid |-> top, feeRate |-> pending[top].feeRate]>>
           \o sortPendingDesc(pending, S \ {top})

top3Transactions(pending) ==
  LET all == sortPendingDesc(pending, DOMAIN pending)
  IN  SubSeq(all, 1, Min(TopK, Len(all)))

----------------------------------------------------------------------------
(* State                                                                   *)

VARIABLES
  \* the ledger node
  tip,                      \* getblockcount
  chain,                    \* chain[h]: the txids of block h, in block order
  mempool,                  \* the txids of getrawmempool
  pool,                     \* the txids that may enter the mempool
  now,                      \* Date.now()
  \* the fields of DieselMonitor
  currentBlockHeight,
  isRunning,
  blockIntervalId,
  mempoolIntervalId,
  dieselMintTransactions,
  pendingMintTransactions,
  highestGasRate,
  processedTxids,
  \* the runtime: interval timers and async calls in flight
  blockTimers,              \* the active timers created at line 65
  mempoolTimers,            \* the active timers created at line 68
  starts,                   \* starts[s]: position of the s-th start() call
  bcyc,                     \* bcyc[c]: a scanNewBlocks() call and its locals
  mcyc,                     \* mcyc[m]: a scanMempool() call and its locals
                            \* (wait: the delay before the retry, in ms), and
                            \* the locals of its getBatchMempoolTransactions
                            \* call (validTxids, g: the loop index, result,
                            \* inflight: the getRawTransaction calls pending)
  \* observation
  emitted,                  \* the events emitted by the last step, in order
  last,                     \* what the last step did
  absent,                   \* the txids of processedTxids that the snapshot
                            \* of a scan did not hold since they were added
  \* the fee calculator called on its own
  feeTx,
  feeResult,
  \* getRecentMintTransactions called on its own: the limit and the result
  recent,
  \* isDieselMintTransaction called on its own
  clsTx,
  clsResult,
  \* BitcoinRPC: its rpcId and a call(method, params) on its own
  rpc

vars == <<tip, chain, mempool, pool, now,
          currentBlockHeight, isRunning, blockIntervalId, mempoolIntervalId,
          dieselMintTransactions, pendingMintTransactions, highestGasRate,
          processedTxids, blockTimers, mempoolTimers, starts, bcyc, mcyc,
          emitted, last, absent, feeTx, feeResult, recent, clsTx, clsResult,
          rpc>>

ledgerVars == <<tip, chain, mempool, pool, now>>
trackerVars == <<dieselMintTransactions, pendingMintTransactions, highestGasRate,
                 processedTxids>>
lifeVars == <<isRunning, blockIntervalId, mempoolIntervalId, blockTimers,
              mempoolTimers, starts>>
callVars == <<feeTx, feeResult, recent, clsTx, clsResult, rpc>>

IdleB == [pc |-> "idle", latest |-> 0, height |-> 0]
IdleM == [pc |-> "idle", currentTime |-> 0, snapshot |-> {}, queue |-> <<>>,
          i |-> 0, retryCount |-> 0, details |-> {}, wait |-> 0,
          validTxids |-> <<>>, g |-> 0, inflight |-> {}, result |-> {}]

\* what a step did: its kind, the height of a block step, the txid of a
\* getRawTransaction that settled (as snapshot), and for the end of
\* a scanMempool() call its snapshot, its currentTime, the ids it classified
\* in order and the retryCount of its last batch
Last(kind, height, snapshot) ==
  [kind |-> kind, height |-> height, snapshot |-> snapshot, time |-> 0,
   classified |-> <<>>, retryCount |-> 0]
LastScan(snapshot, time, classified, retryCount) ==
  [kind |-> "mempoolScanned", height |-> 0, snapshot |-> snapshot, time |-> time,
   classified |-> classified, retryCount |-> retryCount]
Quiet == Last("other", 0, {})

NoFeeTx == Tx(<<>>, <<>>, 0, 0, 0, 0)
NoRecent == [limit |-> 0, result |-> <<>>]
NoClsTx == [txid |-> NoTx, vin |-> <<>>, vout |-> <<>>]
\* the BitcoinRPC object after its constructor (rpcId = 1), no call made
IdleRpc == [pc |-> "idle", method |-> "none", retryCount |-> 0, wait |-> 0,
            error |-> "none", rpcId |-> 1, calls |-> 0]

\* the constructor (lines 7-32); ns bounds the calls of start(), nb and nm
\* the calls of scanNewBlocks() and scanMempool() in flight together
InitMonitor(ns, nb, nm) ==
  /\ currentBlockHeight = 0
  /\ isRunning = FALSE
  /\ blockIntervalId = 0
  /\ mempoolIntervalId = 0
  /\ dieselMintTransactions = <<>>
  /\ pendingMintTransactions = EmptyPending
  /\ highestGasRate = InitialHighest
  /\ processedTxids = {}
  /\ blockTimers = {}
  /\ mempoolTimers = {}
  /\ starts = [s \in 1..ns |-> "new"]
  /\ bcyc = [c \in 1..nb |-> IdleB]
  /\ mcyc = [m \in 1..nm |-> IdleM]
  /\ emitted = <<>>
  /\ last = Quiet
  /\ absent = {}
  /\ feeResult = Null
  /\ recent = NoRecent
  /\ clsResult = FALSE
  /\ rpc = IdleRpc

\* blocks of at most MaxBlockTxs distinct txids out of ids
BlocksOver(ids) ==
  {b \in UNION {[1..n -> ids] : n \in 0..MaxBlockTxs} :
     \A i, j \in DOMAIN b : i # j => b[i] # b[j]}

\* chains of MaxHeight blocks in which no txid is confirmed twice
ChainsOver(ids) ==
  {c \in [1..MaxHeight -> BlocksOver(ids)] :
     \A h, k \in 1..MaxHeight : h # k => Range(c[h]) \cap Range(c[k]) = {}}

\* the ledger of the full specification: two chains, and one transaction
\* that is broadcast before it is confirmed
SpecChains == {<<(<<1, 2>>), (<<4>>)>>, <<(<<2>>), (<<4, 1>>)>>}
SpecPool == {4}

Init ==
  /\ InitMonitor(MaxStarts, MaxBlockCycles, MaxMempoolCycles)
  /\ tip = 0
  /\ chain \in SpecChains
  /\ mempool = {}
  /\ pool = SpecPool
  /\ now = StartTime
  /\ feeTx = NoFeeTx
  /\ clsTx = NoClsTx

----------------------------------------------------------------------------
(* The ledger                                                              *)

Confirmed == UNION {Range(chain[h]) : h \in 1..tip}

\* a block is mined: its transactions leave the mempool
Mine ==
  /\ tip < Len(chain)
  /\ tip' = tip + 1
  /\ mempool' = mempool \ Range(chain[tip + 1])
  /\ emitted' = <<>>
  /\ last' = Quiet
  /\ UNCHANGED <<chain, pool, now, currentBlockHeight, trackerVars, lifeVars,
                 bcyc, mcyc, callVars, absent>>

\* an unconfirmed transaction is broadcast
MempoolEnter(t) ==
  /\ t \in pool
  /\ t \notin mempool
  /\ t \notin Confirmed
  /\ mempool' = mempool \cup {t}
  /\ emitted' = <<>>
  /\ last' = Quiet
  /\ UNCHANGED <<tip, chain, pool, now, currentBlockHeight, trackerVars, lifeVars,
                 bcyc, mcyc, callVars, absent>>

\* an unconfirmed transaction is replaced or evicted by the node
MempoolDrop(t) ==
  /\ t \in mempool
  /\ mempool' = mempool \ {t}
  /\ emitted' = <<>>
  /\ last' = Quiet
  /\ UNCHANGED <<tip, chain, pool, now, currentBlockHeight, trackerVars, lifeVars,
                 bcyc, mcyc, callVars, absent>>

\* the clock advances by one day
AdvanceTime ==
  /\ now < StartTime + MaxAge
  /\ now' = now + 1
  /\ emitted' = <<>>
  /\ last' = Quiet
  /\ UNCHANGED <<tip, chain, mempool, pool, currentBlockHeight, trackerVars,
                 lifeVars, bcyc, mcyc, callVars, absent>>

----------------------------------------------------------------------------
(* start() and stop()                                                      *)

FreeB == {c \in DOMAIN bcyc : bcyc[c].pc = "idle"}
FreeM == {m \in DOMAIN mcyc : mcyc[m].pc = "idle"}
Lowest(S) == CHOOSE x \in S : \A y \in S : x <= y

\* scanNewBlocks() up to its first await (line 99)
beginBlockCycle(b) ==
  [b EXCEPT ![Lowest({c \in DOMAIN b : b[c].pc = "idle"})] =
     [pc |-> "getCount", latest |-> 0, height |-> 0]]

\* scanMempool() up to its first await (lines 268-271)
beginMempoolCycle(m, time) ==
  [m EXCEPT ![Lowest({c \in DOMAIN m : m[c].pc = "idle"})] =
     [IdleM EXCEPT !.pc = "getMempool", !.currentTime = time]]

\* start() up to its first await (lines 38-57); targetHeight is null and
\* startBlockHeight is 'latest', the defaults of the configuration
StartCall ==
  /\ \E s \in DOMAIN starts :
       /\ starts[s] = "new"
       /\ \A r \in DOMAIN starts : r < s => starts[r] # "new"
       /\ IF isRunning
          THEN /\ starts' = [starts EXCEPT ![s] = "done"]
               /\ UNCHANGED isRunning
          ELSE /\ starts' = [starts EXCEPT ![s] = "awaitHeight"]
               /\ isRunning' = TRUE
  /\ emitted' = <<>>
  /\ last' = Quiet
  /\ UNCHANGED <<ledgerVars, currentBlockHeight, trackerVars, blockIntervalId,
                 mempoolIntervalId, blockTimers, mempoolTimers, bcyc, mcyc, callVars, absent>>

\* getBlockCount() answers: lines 57-72, the two immediate scans included
StartGotHeight(s) ==
  /\ starts[s] = "awaitHeight"
  /\ FreeB # {}
  /\ FreeM # {}
  /\ starts' = [starts EXCEPT ![s] = "done"]
  /\ currentBlockHeight' = tip
  /\ blockIntervalId' = s
  /\ mempoolIntervalId' = s
  /\ blockTimers' = blockTimers \cup {s}
  /\ mempoolTimers' = mempoolTimers \cup {s}
  /\ bcyc' = beginBlockCycle(bcyc)
  /\ mcyc' = beginMempoolCycle(mcyc, now)
  /\ emitted' = <<>>
  /\ last' = Quiet
  /\ UNCHANGED <<ledgerVars, isRunning, trackerVars, callVars, absent>>

\* getBlockCount() throws: the catch of lines 73-76
StartFail(s) ==
  /\ starts[s] = "awaitHeight"
  /\ starts' = [starts EXCEPT ![s] = "done"]
  /\ isRunning' = FALSE
  /\ emitted' = <<>>
  /\ last' = Last("startFailed", 0, {})
  /\ UNCHANGED <<ledgerVars, currentBlockHeight, trackerVars, blockIntervalId,
                 mempoolIntervalId, blockTimers, mempoolTimers, bcyc, mcyc, callVars, absent>>

\* stop() (lines 82-92)
Stop ==
  /\ IF ~isRunning
     THEN UNCHANGED <<isRunning, blockTimers, mempoolTimers>>
     ELSE /\ blockTimers' = blockTimers \ {blockIntervalId}
          /\ mempoolTimers' = mempoolTimers \ {mempoolIntervalId}
          /\ isRunning' = FALSE
  /\ emitted' = <<>>
  /\ last' = Quiet
  /\ UNCHANGED <<ledgerVars, currentBlockHeight, trackerVars, blockIntervalId,
                 mempoolIntervalId, starts, bcyc, mcyc,
                 callVars, absent>>

----------------------------------------------------------------------------
(* scanNewBlocks() and processBlock()                                      *)

\* the block timer fires (line 65); nothing in the code looks at a cycle
\* that is still in flight
BlockTick ==
  /\ blockTimers # {}
  /\ FreeB # {}
  /\ bcyc' = beginBlockCycle(bcyc)
  /\ emitted' = <<>>
  /\ last' = Quiet
  /\ UNCHANGED <<ledgerVars, currentBlockHeight, trackerVars, lifeVars, mcyc, callVars, absent>>

\* the cycle returns early only when the ledger is below the current
\* height, and calls processBlock(currentBlockHeight + 1) otherwise
noNewBlockBelow(latestBlockHeight, current) == latestBlockHeight < current

\* the test of the early return of lines 101-104
noNewBlock(latestBlockHeight, current) == latestBlockHeight <= current

\* getBlockCount() answers (lines 99-110): return, or enter the loop and
\* call processBlock up to its first await (line 128)
BlockCountOk(c) ==
  /\ bcyc[c].pc = "getCount"
  /\ bcyc' = [bcyc EXCEPT ![c] =
       IF noNewBlock(tip, currentBlockHeight) THEN IdleB
       ELSE [pc |-> "getHash", latest |-> tip, height |-> currentBlockHeight + 1]]
  /\ emitted' = <<>>
  /\ last' = IF noNewBlock(tip, currentBlockHeight)
             THEN Last("noNewBlock", currentBlockHeight, {})
             ELSE Quiet
  /\ UNCHANGED <<ledgerVars, currentBlockHeight, trackerVars, lifeVars, mcyc, callVars, absent>>

\* getBlockCount() throws: the catch of lines 117-119
BlockCountFail(c) ==
  /\ bcyc[c].pc = "getCount"
  /\ bcyc' = [bcyc EXCEPT ![c] = IdleB]
  /\ emitted' = <<>>
  /\ last' = Quiet
  /\ UNCHANGED <<ledgerVars, currentBlockHeight, trackerVars, lifeVars, mcyc, callVars, absent>>

\* getBlockHash() answers (line 128), getBlock() is called (line 129)
GetBlockHashOk(c) ==
  /\ bcyc[c].pc = "getHash"
  /\ bcyc' = [bcyc EXCEPT ![c].pc = "getBlock"]
  /\ emitted' = <<>>
  /\ last' = Quiet
  /\ UNCHANGED <<ledgerVars, currentBlockHeight, trackerVars, lifeVars, mcyc, callVars, absent>>

\* lines 111-116 and the loop test of line 109, after processBlock returned:
\* the next iteration calls processBlock up to its first await
afterProcessBlock(cyc) ==
  IF cyc.height + 1 <= cyc.latest
  THEN [pc |-> "getHash", latest |-> cyc.latest, height |-> cyc.height + 1]
  ELSE IdleB

heightAfterProcessBlock(old, height) == height

\* getBlockHash() or getBlock() throws: the catch of lines 208-210 returns
\* normally to scanNewBlocks
ProcessBlockFail(c) ==
  /\ bcyc[c].pc \in {"getHash", "getBlock"}
  /\ currentBlockHeight' = heightAfterProcessBlock(currentBlockHeight, bcyc[c].height)
  /\ pendingMintTransactions' = EmptyPending
  /\ processedTxids' = {}
  /\ absent' = {}
  /\ bcyc' = [bcyc EXCEPT ![c] = afterProcessBlock(bcyc[c])]
  /\ emitted' = <<>>
  /\ last' = Last("blockFailed", bcyc[c].height, {})
  /\ UNCHANGED <<ledgerVars, dieselMintTransactions, highestGasRate, lifeVars,
                 mcyc, callVars>>

\* getBlock() answers: lines 131-207, then lines 111-116
ProcessBlockOk(c) ==
  /\ bcyc[c].pc = "getBlock"
  /\ LET height == bcyc[c].height
         txids == chain[height]
         mints == blockDieselMints(height, txids)
         winner == findWinningTransaction(mints)
     IN  /\ dieselMintTransactions' = addAll(dieselMintTransactions, mints)
         /\ highestGasRate' =
              IF winner.txid # NoTx
              THEN processBlockHighest(highestGasRate, winner, height)
              ELSE highestGasRate
         /\ emitted' = processBlockEvents(mints, winner, highestGasRate, height)
         /\ currentBlockHeight' = heightAfterProcessBlock(currentBlockHeight, height)
         /\ last' = Last("blockProcessed", height, {})
  /\ pendingMintTransactions' = EmptyPending
  /\ processedTxids' = {}
  /\ absent' = {}
  /\ bcyc' = [bcyc EXCEPT ![c] = afterProcessBlock(bcyc[c])]
  /\ UNCHANGED <<ledgerVars, lifeVars, mcyc, callVars>>

----------------------------------------------------------------------------
(* scanMempool()                                                           *)

\* the mempool timer fires (line 68)
MempoolTick ==
  /\ mempoolTimers # {}
  /\ FreeM # {}
  /\ mcyc' = beginMempoolCycle(mcyc, now)
  /\ emitted' = <<>>
  /\ last' = Quiet
  /\ UNCHANGED <<ledgerVars, currentBlockHeight, trackerVars, lifeVars, bcyc, callVars, absent>>

\* getRawMempool(true) throws: the return of line 278
MempoolSnapshotFail(m) ==
  /\ mcyc[m].pc = "getMempool"
  /\ mcyc' = [mcyc EXCEPT ![m] = IdleM]
  /\ emitted' = <<>>
  /\ last' = Quiet
  /\ UNCHANGED <<ledgerVars, currentBlockHeight, trackerVars, lifeVars, bcyc, callVars, absent>>

\* getRawMempool(true) answers (lines 281-351): the early returns, or the
\* first call of getBatchMempoolTransactions
MempoolSnapshotOk(m) ==
  /\ mcyc[m].pc = "getMempool"
  /\ LET queue == highFeeRateTxs(mempool, processedTxids)
     IN  IF mempool = {} \/ queue = <<>>
         THEN /\ mcyc' = [mcyc EXCEPT ![m] = IdleM]
              /\ last' = LastScan(mempool, mcyc[m].currentTime, <<>>, 0)
         ELSE /\ mcyc' = [mcyc EXCEPT ![m] =
                   [IdleM EXCEPT !.pc = "fetchBatch",
                                 !.currentTime = mcyc[m].currentTime,
                                 !.snapshot = mempool,
                                 !.queue = queue]]
              /\ last' = Quiet
  /\ absent' = absent \cup (processedTxids \ mempool)
  /\ emitted' = <<>>
  /\ UNCHANGED <<ledgerVars, currentBlockHeight, trackerVars, lifeVars, bcyc, callVars>>

\* lines 399-468: classification, eviction, the top list and the event;
\* retryCount is the local of the last batch when its loop was left
FinishScan(m, details, retryCount) ==
  LET cyc == mcyc[m]
      ids == SelectSeq(cyc.queue, LAMBDA t : t \in details)
      res == classifyAll(ids, pendingMintTransactions, highestGasRate, now)
      processed == evictProcessed(processedTxids \cup details, cyc.snapshot,
                                  res.pending, cyc.currentTime)
  IN  /\ pendingMintTransactions' = res.pending
      /\ highestGasRate' = res.highest
      /\ processedTxids' = processed
      /\ absent' = absent \cap processed
      /\ emitted' = IF DOMAIN pendingMintTransactions' # {}
                    THEN <<MempoolEv(highestGasRate',
                                     Cardinality(DOMAIN pendingMintTransactions'),
                                     top3Transactions(pendingMintTransactions'))>>
                    ELSE <<>>
      /\ last' = LastScan(cyc.snapshot, cyc.currentTime, ids, retryCount)
      /\ mcyc' = [mcyc EXCEPT ![m] = IdleM]
      /\ UNCHANGED dieselMintTransactions

\* getBatchMempoolTransactions answers with the transactions it could fetch
\* (bitcoinRPC.js lines 143-183): ids of the batch still in the mempool
BatchOk(m, got) ==
  /\ mcyc[m].pc = "fetchBatch"
  /\ got \subseteq (Range(txBatch(mcyc[m].queue, mcyc[m].i)) \cap mempool)
  /\ mcyc' = [mcyc EXCEPT ![m].pc = "batchDelay",
                          ![m].details = mcyc[m].details \cup got]
  /\ emitted' = <<>>
  /\ last' = Quiet
  /\ UNCHANGED <<ledgerVars, currentBlockHeight, trackerVars, lifeVars, bcyc, callVars, absent>>

\* getBatchMempoolTransactions step by step (bitcoinRPC.js lines 143-183).
\* Its getRawMempool(true) answers (lines 147-158): nothing of the batch is
\* left and the empty map is returned, or the first group is requested
BatchSnapshotOk(m) ==
  /\ mcyc[m].pc = "fetchBatch"
  /\ LET valid == validTxidsOf(txBatch(mcyc[m].queue, mcyc[m].i), mempool)
     IN  mcyc' = IF valid = <<>>
                 THEN [mcyc EXCEPT ![m].pc = "batchDelay"]
                 ELSE [mcyc EXCEPT ![m].pc = "fetchGroup",
                                   ![m].validTxids = valid,
                                   ![m].g = 0,
                                   ![m].result = {},
                                   ![m].inflight = Range(fetchGroup(valid, 0))]
  /\ emitted' = <<>>
  /\ last' = Quiet
  /\ UNCHANGED <<ledgerVars, currentBlockHeight, trackerVars, lifeVars, bcyc, callVars, absent>>

\* one getRawTransaction of the group answers (ok) or throws and is caught
\* (lines 158-163); when it is the last one Promise.all resolves (lines
\* 167-182): the delay before the next group, or the return of the map
FetchSettle(m, t, ok) ==
  /\ mcyc[m].pc = "fetchGroup"
  /\ t \in mcyc[m].inflight
  /\ ok => t \in mempool
  /\ LET cyc == mcyc[m]
         inflight == cyc.inflight \ {t}
         result == resultSet(cyc.result, t, ok)
     IN  mcyc' =
           IF inflight # {}
           THEN [mcyc EXCEPT ![m].inflight = inflight, ![m].result = result]
           ELSE IF cyc.g + batchConcurrency < Len(cyc.validTxids)
           THEN [mcyc EXCEPT ![m].pc = "groupDelay",
                             ![m].inflight = {},
                             ![m].result = result]
           ELSE [mcyc EXCEPT ![m].pc = "batchDelay",
                             ![m].details = cyc.details \cup result,
                             ![m].validTxids = <<>>,
                             ![m].g = 0,
                             ![m].inflight = {},
                             ![m].result = {}]
  /\ emitted' = <<>>
  /\ last' = Last(IF ok THEN "fetchOk" ELSE "fetchFailed", 0, {t})
  /\ UNCHANGED <<ledgerVars, currentBlockHeight, trackerVars, lifeVars, bcyc, callVars, absent>>

\* the 100 ms of bitcoinRPC.js line 178 are over: the next group is requested
GroupDelayDone(m) ==
  /\ mcyc[m].pc = "groupDelay"
  /\ LET g == mcyc[m].g + batchConcurrency
     IN  mcyc' = [mcyc EXCEPT ![m].pc = "fetchGroup",
                             ![m].g = g,
                             ![m].inflight = Range(fetchGroup(mcyc[m].validTxids, g))]
  /\ emitted' = <<>>
  /\ last' = Quiet
  /\ UNCHANGED <<ledgerVars, currentBlockHeight, trackerVars, lifeVars, bcyc, callVars, absent>>

\* delay(100) of line 362 is over: the next batch, or the rest of the scan
BatchDelayDone(m) ==
  /\ mcyc[m].pc = "batchDelay"
  /\ IF mcyc[m].i + 1 < batchCount(mcyc[m].queue)
     THEN /\ mcyc' = [mcyc EXCEPT ![m].pc = "fetchBatch",
                                  ![m].i = mcyc[m].i + 1,
                                  ![m].retryCount = 0,
                                  ![m].wait = 0]
          /\ emitted' = <<>>
          /\ last' = Quiet
          /\ UNCHANGED <<trackerVars, absent>>
     ELSE FinishScan(m, mcyc[m].details, mcyc[m].retryCount)
  /\ UNCHANGED <<ledgerVars, currentBlockHeight, lifeVars, bcyc, callVars>>

\* getBatchMempoolTransactions throws (lines 364-387): wait and retry, or
\* give the batch up after maxRetries failures
BatchFail(m) ==
  /\ mcyc[m].pc = "fetchBatch"
  /\ IF retryBatch(mcyc[m].retryCount + 1)
     THEN /\ mcyc' = [mcyc EXCEPT ![m].pc = "retryDelay",
                                  ![m].retryCount = mcyc[m].retryCount + 1,
                                  ![m].wait = retryDelayMs(mcyc[m].retryCount + 1)]
          /\ emitted' = <<>>
          /\ last' = Quiet
          /\ UNCHANGED <<trackerVars, absent>>
     ELSE IF mcyc[m].i + 1 < batchCount(mcyc[m].queue)
     THEN /\ mcyc' = [mcyc EXCEPT ![m].pc = "fetchBatch",
                                  ![m].i = mcyc[m].i + 1,
                                  ![m].retryCount = 0,
                                  ![m].wait = 0]
          /\ emitted' = <<>>
          /\ last' = Quiet
          /\ UNCHANGED <<trackerVars, absent>>
     ELSE FinishScan(m, mcyc[m].details, mcyc[m].retryCount + 1)
  /\ UNCHANGED <<ledgerVars, currentBlockHeight, lifeVars, bcyc, callVars>>

\* delay(1000 * retryCount) of line 384 is over
RetryDelayDone(m) ==
  /\ mcyc[m].pc = "retryDelay"
  /\ mcyc' = [mcyc EXCEPT ![m].pc = "fetchBatch"]
  /\ emitted' = <<>>
  /\ last' = Quiet
  /\ UNCHANGED <<ledgerVars, currentBlockHeight, trackerVars, lifeVars, bcyc, callVars, absent>>

----------------------------------------------------------------------------
(* The specification: every interleaving of the ledger, start(), stop(),   *)
(* the timers and the answers of the node                                  *)

Next ==
  \/ Mine
  \/ \E t \in TxIds : MempoolEnter(t)
  \/ \E t \in TxIds : MempoolDrop(t)
  \/ StartCall
  \/ \E s \in DOMAIN starts : StartGotHeight(s)
  \/ \E s \in DOMAIN starts : StartFail(s)
  \/ Stop
  \/ BlockTick
  \/ \E c \in DOMAIN bcyc : BlockCountOk(c)
  \/ \E c \in DOMAIN bcyc : BlockCountFail(c)
  \/ \E c \in DOMAIN bcyc : GetBlockHashOk(c)
  \/ \E c \in DOMAIN bcyc : ProcessBlockFail(c)
  \/ \E c \in DOMAIN bcyc : ProcessBlockOk(c)
  \/ MempoolTick
  \/ \E m \in DOMAIN mcyc : MempoolSnapshotFail(m)
  \/ \E m \in DOMAIN mcyc : MempoolSnapshotOk(m)
  \/ \E m \in DOMAIN mcyc : \E got \in SUBSET TxIds : BatchOk(m, got)
  \/ \E m \in DOMAIN mcyc : BatchDelayDone(m)
  \/ \E m \in DOMAIN mcyc : BatchFail(m)
  \/ \E m \in DOMAIN mcyc : RetryDelayDone(m)

Spec == Init /\ [][Next]_vars

----------------------------------------------------------------------------
(* The life cycle: start() and stop() called at any time, timers firing    *)
(* while cycles are in flight; no transaction is broadcast                 *)

LifeChain == <<(<<1, 2>>), (<<4>>)>>

InitLife ==
  /\ InitMonitor(LifeStarts, LifeCycles, LifeCycles)
  /\ tip = 0
  /\ chain = LifeChain
  /\ mempool = {}
  /\ pool = {}
  /\ now = StartTime
  /\ feeTx = NoFeeTx
  /\ clsTx = NoClsTx

NextLife ==
  \/ Mine
  \/ StartCall
  \/ \E s \in DOMAIN starts : StartGotHeight(s)
  \/ \E s \in DOMAIN starts : StartFail(s)
  \/ Stop
  \/ BlockTick
  \/ \E c \in DOMAIN bcyc : BlockCountOk(c)
  \/ \E c \in DOMAIN bcyc : BlockCountFail(c)
  \/ \E c \in DOMAIN bcyc : GetBlockHashOk(c)
  \/ \E c \in DOMAIN bcyc : ProcessBlockFail(c)
  \/ \E c \in DOMAIN bcyc : ProcessBlockOk(c)
  \/ MempoolTick
  \/ \E m \in DOMAIN mcyc : MempoolSnapshotFail(m)
  \/ \E m \in DOMAIN mcyc : MempoolSnapshotOk(m)

SpecLife == InitLife /\ [][NextLife]_vars

----------------------------------------------------------------------------
(* Block scanning over every chain of the bounded ledger: one start(), the *)
(* block timer firing between cycles                                       *)

BlockTxIds == {1, 2, 4, 5, 6}

InitBlocks ==
  /\ InitMonitor(1, 1, 1)
  /\ tip = 0
  /\ chain \in ChainsOver(BlockTxIds)
  /\ mempool = {}
  /\ pool = {}
  /\ now = StartTime
  /\ feeTx = NoFeeTx
  /\ clsTx = NoClsTx

NextBlocks ==
  \/ Mine
  \/ StartCall
  \/ \E s \in DOMAIN starts : StartGotHeight(s)
  \/ BlockTick
  \/ \E c \in DOMAIN bcyc : BlockCountOk(c)
  \/ \E c \in DOMAIN bcyc : BlockCountFail(c)
  \/ \E c \in DOMAIN bcyc : GetBlockHashOk(c)
  \/ \E c \in DOMAIN bcyc : ProcessBlockFail(c)
  \/ \E c \in DOMAIN bcyc : ProcessBlockOk(c)
  \/ \E m \in DOMAIN mcyc : MempoolSnapshotOk(m)

SpecBlocks == InitBlocks /\ [][NextBlocks]_vars

----------------------------------------------------------------------------
(* Block scanning over the chains of three mints, two of them of the same  *)
(* fee rate: the record of the highest winner                              *)

RecordTxIds == {1, 2, 7}

InitRecord ==
  /\ InitMonitor(1, 1, 1)
  /\ tip = 0
  /\ chain \in ChainsOver(RecordTxIds)
  /\ mempool = {}
  /\ pool = {}
  /\ now = StartTime
  /\ feeTx = NoFeeTx
  /\ clsTx = NoClsTx

SpecRecord == InitRecord /\ [][NextBlocks]_vars

----------------------------------------------------------------------------
(* The fee calculator on its own, over every transaction of bounded size   *)

VinSpace == {Vin(FALSE, 0)} \cup {Vin(TRUE, v) : v \in {NotANumber} \cup 0..MaxAmount}
VoutSpace == {PayOut(v) : v \in {NotANumber} \cup 0..MaxAmount}
SeqsUpTo(S, n) == UNION {[1..k -> S] : k \in 0..n}

FeeTxSpace ==
  {Tx(vin, vout, vsize, size, weight, 0) :
     vin \in SeqsUpTo(VinSpace, MaxIo), vout \in SeqsUpTo(VoutSpace, MaxIo),
     vsize \in 0..MaxAmount, size \in 0..MaxAmount, weight \in 0..MaxWeight}

InitFee ==
  /\ InitMonitor(1, 1, 1)
  /\ tip = 0
  /\ chain = <<>>
  /\ mempool = {}
  /\ pool = {}
  /\ now = StartTime
  /\ feeTx \in FeeTxSpace
  /\ clsTx = NoClsTx

\* calculateFeeRate(feeTx) is called and returns
FeeCall ==
  /\ last = Quiet
  /\ feeResult' = calculateFeeRate(feeTx)
  /\ last' = Last("feeComputed", 0, {})
  /\ UNCHANGED <<ledgerVars, currentBlockHeight, trackerVars, lifeVars, bcyc,
                 mcyc, emitted, absent, feeTx, recent, clsTx, clsResult, rpc>>

NextFee == FeeCall

SpecFee == InitFee /\ [][NextFee]_vars

----------------------------------------------------------------------------
(* Mempool scanning on its own: no block is mined, transactions enter and  *)
(* leave the mempool, one scan is in flight at a time                      *)

\* 1 and 2 are mints above the threshold, 5 is above it and no mint, 6 is a
\* mint below it
MempoolPool == {1, 2, 5, 6}

InitMempool ==
  /\ InitMonitor(1, 1, 1)
  /\ tip = 0
  /\ chain = <<>>
  /\ mempool = {}
  /\ pool = MempoolPool
  /\ now = StartTime
  /\ feeTx = NoFeeTx
  /\ clsTx = NoClsTx

NextMempool ==
  \/ \E t \in TxIds : MempoolEnter(t)
  \/ \E t \in TxIds : MempoolDrop(t)
  \/ StartCall
  \/ \E s \in DOMAIN starts : StartGotHeight(s)
  \/ \E c \in DOMAIN bcyc : BlockCountOk(c)
  \/ MempoolTick
  \/ \E m \in DOMAIN mcyc : MempoolSnapshotFail(m)
  \/ \E m \in DOMAIN mcyc : MempoolSnapshotOk(m)
  \/ \E m \in DOMAIN mcyc : \E got \in SUBSET TxIds : BatchOk(m, got)
  \/ \E m \in DOMAIN mcyc : BatchDelayDone(m)
  \/ \E m \in DOMAIN mcyc : BatchFail(m)
  \/ \E m \in DOMAIN mcyc : RetryDelayDone(m)

SpecMempool == InitMempool /\ [][NextMempool]_vars

----------------------------------------------------------------------------
(* Mempool scanning while the clock advances: entries of processedTxids    *)
(* and pendingMintTransactions grow older than the 24 hours of line 437    *)

\* 1 is a mint above the threshold, 5 is above it and no mint
TtlPool == {1, 5}

InitTtl ==
  /\ InitMonitor(1, 1, 1)
  /\ tip = 0
  /\ chain = <<>>
  /\ mempool = {}
  /\ pool = TtlPool
  /\ now = StartTime
  /\ feeTx = NoFeeTx
  /\ clsTx = NoClsTx

NextTtl ==
  \/ \E t \in TxIds : MempoolEnter(t)
  \/ AdvanceTime
  \/ StartCall
  \/ \E s \in DOMAIN starts : StartGotHeight(s)
  \/ \E c \in DOMAIN bcyc : BlockCountOk(c)
  \/ MempoolTick
  \/ \E m \in DOMAIN mcyc : MempoolSnapshotOk(m)
  \/ \E m \in DOMAIN mcyc : \E got \in SUBSET TxIds : BatchOk(m, got)
  \/ \E m \in DOMAIN mcyc : BatchDelayDone(m)

SpecTtl == InitTtl /\ [][NextTtl]_vars

----------------------------------------------------------------------------
(* A block scan and a mempool scan in flight together: a mint is broadcast *)
(* and then confirmed while the monitor runs                               *)

RaceChain == <<(<<1, 5>>), (<<>>)>>
RacePool == {1}

InitRace ==
  /\ InitMonitor(1, 1, 1)
  /\ tip = 0
  /\ chain = RaceChain
  /\ mempool = {}
  /\ pool = RacePool
  /\ now = StartTime
  /\ feeTx = NoFeeTx
  /\ clsTx = NoClsTx

NextRace ==
  \/ Mine
  \/ \E t \in TxIds : MempoolEnter(t)
  \/ StartCall
  \/ \E s \in DOMAIN starts : StartGotHeight(s)
  \/ BlockTick
  \/ \E c \in DOMAIN bcyc : BlockCountOk(c)
  \/ \E c \in DOMAIN bcyc : GetBlockHashOk(c)
  \/ \E c \in DOMAIN bcyc : ProcessBlockOk(c)
  \/ MempoolTick
  \/ \E m \in DOMAIN mcyc : MempoolSnapshotOk(m)
  \/ \E m \in DOMAIN mcyc : \E got \in SUBSET TxIds : BatchOk(m, got)
  \/ \E m \in DOMAIN mcyc : BatchDelayDone(m)

SpecRace == InitRace /\ [][NextRace]_vars

----------------------------------------------------------------------------
(* The accessor of the history log, called at any time while blocks are    *)
(* scanned one after the other                                             *)

RecentChains == {<<(<<1>>), (<<2>>)>>, <<(<<1, 2>>), (<<6>>)>>}

InitRecent ==
  /\ InitMonitor(1, 1, 1)
  /\ tip = 0
  /\ chain \in RecentChains
  /\ mempool = {}
  /\ pool = {}
  /\ now = StartTime
  /\ feeTx = NoFeeTx
  /\ clsTx = NoClsTx

\* getRecentMintTransactions(limit) is called and returns
RecentCall ==
  /\ \E limit \in 0..MaxLimit :
       recent' = [limit |-> limit,
                  result |-> getRecentMintTransactions(dieselMintTransactions, limit)]
  /\ emitted' = <<>>
  /\ last' = Last("recentCalled", 0, {})
  /\ UNCHANGED <<ledgerVars, currentBlockHeight, trackerVars, lifeVars, bcyc,
                 mcyc, absent, feeTx, feeResult, clsTx, clsResult, rpc>>

NextRecent ==
  \/ Mine
  \/ StartCall
  \/ \E s \in DOMAIN starts : StartGotHeight(s)
  \/ BlockTick
  \/ \E c \in DOMAIN bcyc : BlockCountOk(c)
  \/ \E c \in DOMAIN bcyc : GetBlockHashOk(c)
  \/ \E c \in DOMAIN bcyc : ProcessBlockOk(c)
  \/ \E m \in DOMAIN mcyc : MempoolSnapshotOk(m)
  \/ RecentCall

SpecRecent == InitRecent /\ [][NextRecent]_vars

----------------------------------------------------------------------------
(* The classifier on its own, over every transaction of bounded size whose *)
(* outputs are scripts of hexadecimal digits                               *)

\* the digits the bytes after the first byte of a script are made of
ScriptDigits == {7, 15}
\* the first byte of a script: OP_RETURN or another opcode ('77')
FirstBytes == {OpReturnHex, <<7, 7>>}

\* the scripts of the node: whole bytes, and type 'nulldata' only for a
\* script that starts with OP_RETURN
ScriptSpace ==
  {ScriptOut(type, first \o rest) :
     type \in {"nulldata", "nonstandard"}, first \in FirstBytes,
     rest \in UNION {[1..(2 * n) -> ScriptDigits] : n \in 0..MaxScriptBytes}}

ClsScripts ==
  {o \in ScriptSpace : o.type = "nulldata" => startsWith(o.hex, OpReturnHex)}

ClsTxSpace ==
  {[txid |-> txid, vin |-> vin, vout |-> vout] :
     txid \in 1..2, vin \in {<<>>, <<Vin(TRUE, 1)>>},
     vout \in SeqsUpTo(ClsScripts, MaxClsOutputs)}

InitClassify ==
  /\ InitMonitor(1, 1, 1)
  /\ tip = 0
  /\ chain = <<>>
  /\ mempool = {}
  /\ pool = {}
  /\ now = StartTime
  /\ feeTx = NoFeeTx
  /\ clsTx \in ClsTxSpace

\* isDieselMintTransaction(clsTx) is called and returns
ClassifyCall ==
  /\ last = Quiet
  /\ clsResult' = classifyScripts(clsTx)
  /\ last' = Last("classified", 0, {})
  /\ UNCHANGED <<ledgerVars, currentBlockHeight, trackerVars, lifeVars, bcyc,
                 mcyc, emitted, absent, feeTx, feeResult, recent, clsTx, rpc>>

NextClassify == ClassifyCall

SpecClassify == InitClassify /\ [][NextClassify]_vars

----------------------------------------------------------------------------
(* Properties                                                              *)

EventsOf(type) == SelectSeq(emitted, LAMBDA e : e.type = type)
LastN(s, n) == SubSeq(s, Len(s) - Min(n, Len(s)) + 1, Len(s))

\* the computed fee of a transaction is <= 0, or its size is 0
BadFee(tx) == inputSum(tx) - outputSum(tx) <= 0 \/ txVsize(tx) = 0

\* position i of block h holds a mint with a valid fee rate above the floor
ValidAt(h, i) ==
  LET tx == TxCatalog[chain[h][i]]
  IN  /\ isDieselMintTransaction(tx)
      /\ ~BadFee(tx)
      /\ inputSum(tx) - outputSum(tx) > WinnerFloor * txVsize(tx)

\* the history after a step is the newest maxHistoryRecords entries of the
\* history before it followed by the mints the step announced
HistoryStep ==
  LET news == SelectSeq(emitted', LAMBDA e : e.type = "new-mint")
      added == [i \in DOMAIN news |->
                  MintInfo(news[i].txid, news[i].height, news[i].feeRate)]
  IN  dieselMintTransactions' =
        LastN(dieselMintTransactions \o added, maxHistoryRecords)

\* C1: after any sequence of block-processing operations the history log
\* holds at most maxHistoryRecords entries, and when it is trimmed the oldest
\* entries are the ones dropped.
C1_HistoryBound ==
  /\ [](Len(dieselMintTransactions) <= maxHistoryRecords)
  /\ [][HistoryStep]_vars

\* C1 witness: the log is full and its oldest entry is not the first mint of
\* the block it came from, so an older entry has been dropped.
C1_Trimmed ==
  /\ Len(dieselMintTransactions) = maxHistoryRecords
  /\ LET h == dieselMintTransactions[1].blockHeight
     IN  blockDieselMints(h, chain[h])[1].txid # dieselMintTransactions[1].txid

\* C2: highestGasRate.feeRate never decreases: in every step of every
\* interleaving the new value is at least the old one.
C2_MonotonicRecord ==
  [][RGe(highestGasRate'.feeRate, highestGasRate.feeRate)]_vars

\* C2 witness: a block was processed whose winner has a lower fee rate than
\* the record, and the record was kept.
C2_LowerWinnerSeen ==
  /\ last.kind = "blockProcessed"
  /\ \E i \in DOMAIN emitted :
       /\ emitted[i].type = "diesel-won"
       /\ RGt(highestGasRate.feeRate, emitted[i].feeRate)

\* C3: a candidate for which calculateFeeRate returns null is never the
\* winner of a block (diesel-won) and never becomes highestGasRate.
C3_NoUnavailableInCompetition ==
  /\ \A i \in DOMAIN emitted :
       emitted[i].type = "diesel-won" =>
         ~IsNull(calculateFeeRate(TxCatalog[emitted[i].txid]))
  /\ highestGasRate.txid # NoTx =>
       ~IsNull(calculateFeeRate(TxCatalog[highestGasRate.txid]))

\* C4: the winner of a processed block is the first transaction in block
\* order that is a mint with a valid fee rate above 1, whatever the fee rates
\* of the later ones; without such a transaction there is no winner.
C4_EarliestValidWins ==
  last.kind = "blockProcessed" =>
    LET h == last.height
        won == EventsOf("diesel-won")
    IN  IF \E i \in DOMAIN chain[h] : ValidAt(h, i)
        THEN /\ Len(won) = 1
             /\ \E i \in DOMAIN chain[h] :
                  /\ ValidAt(h, i)
                  /\ \A j \in DOMAIN chain[h] : j < i => ~ValidAt(h, j)
                  /\ won[1].txid = chain[h][i]
        ELSE won = <<>>

\* C4 witness: a processed block in which a later valid mint has a higher
\* fee rate than the first valid one, and the first one won.
C4_LaterHigherLost ==
  /\ last.kind = "blockProcessed"
  /\ \E i, j \in DOMAIN chain[last.height] :
       /\ i < j
       /\ ValidAt(last.height, i)
       /\ ValidAt(last.height, j)
       /\ \A k \in DOMAIN chain[last.height] : k < i => ~ValidAt(last.height, k)
       /\ RGt(calculateFeeRate(TxCatalog[chain[last.height][j]]),
              calculateFeeRate(TxCatalog[chain[last.height][i]]))
       /\ EventsOf("diesel-won") # <<>>
       /\ EventsOf("diesel-won")[1].txid = chain[last.height][i]

\* C5: when fetching or processing a height fails, currentBlockHeight does
\* not advance to that height: the height stays to be retried.
C5_NoAdvanceOnFailure ==
  last.kind = "blockFailed" => currentBlockHeight < last.height

\* C6: when a mempool scan cycle ends, early or not, every txid of
\* pendingMintTransactions was in the snapshot that scan fetched.
C6_PendingFreshness ==
  last.kind = "mempoolScanned" =>
    DOMAIN pendingMintTransactions \subseteq last.snapshot

\* C7: at no time are two cycles of scanNewBlocks in flight together, nor two
\* cycles of scanMempool.
C7_SelfSerializing ==
  /\ Cardinality({c \in DOMAIN bcyc : bcyc[c].pc # "idle"}) <= 1
  /\ Cardinality({m \in DOMAIN mcyc : mcyc[m].pc # "idle"}) <= 1

\* C8: while the service is stopped (after stop() returned and before a
\* later start()), no block-scan or mempool-scan cycle begins.
C8_NoCycleAfterStop ==
  [][((\E c \in DOMAIN bcyc : bcyc[c].pc = "idle" /\ bcyc'[c].pc # "idle")
      \/ (\E m \in DOMAIN mcyc : mcyc[m].pc = "idle" /\ mcyc'[m].pc # "idle"))
     => isRunning]_vars

\* C9: a candidate whose computed fee is <= 0 or whose size is 0 gets null
\* from calculateFeeRate, never wins a block and is in no top list.
C9_BadFeeExcluded ==
  /\ \A t \in TxIds : BadFee(TxCatalog[t]) => IsNull(calculateFeeRate(TxCatalog[t]))
  /\ \A i \in DOMAIN emitted :
       /\ emitted[i].type = "diesel-won" => ~BadFee(TxCatalog[emitted[i].txid])
       /\ emitted[i].type = "mempool-update" =>
            \A k \in DOMAIN emitted[i].top :
              ~BadFee(TxCatalog[emitted[i].top[k].txid])

\* C10: when the prevout of any input is missing, calculateFeeRate returns
\* null, whatever the resolved inputs and the outputs sum to.
C10_UnresolvedInputIsNull ==
  (last.kind = "feeComputed" /\ \E i \in DOMAIN feeTx.vin : ~feeTx.vin[i].hasPrevout)
    => IsNull(feeResult)

\* C11: when a mempool scan ends, processedTxids holds no entry that was
\* older than the 24 hours of line 437 when the scan began, whether or not
\* its txid is in the snapshot, so the txid is fetched again afterwards.
C11_TtlEviction ==
  last.kind = "mempoolScanned" =>
    \A t \in processedTxids :
      t \in DOMAIN pendingMintTransactions =>
        pendingMintTransactions[t].timestamp >= last.time - EntryTtl

\* fees.base of the snapshot entry is at least MIN_FEE_RATE per unit of
\* vsize (or of size when vsize is missing)
AboveThreshold(t) ==
  LET e == TxCatalog[t]
      d == IF e.vsize # 0 THEN e.vsize ELSE e.size
  IN  d # 0 /\ e.feeBase >= MIN_FEE_RATE * d

\* C12: in every mempool scan a txid is queued, fetched and classified only
\* if its approximate fee rate in the snapshot is >= 10 and it is not in
\* processedTxids when the snapshot is filtered; a txid below the threshold is
\* never fetched and is never in processedTxids.
C12_Prefilter ==
  /\ [](\A m \in DOMAIN mcyc :
          (Range(mcyc[m].queue) \cup mcyc[m].details)
            \subseteq {t \in mcyc[m].snapshot : AboveThreshold(t)})
  /\ [](\A t \in TxIds :
          ~AboveThreshold(t) =>
            t \notin processedTxids /\ t \notin DOMAIN pendingMintTransactions)
  /\ [](last.kind = "mempoolScanned" =>
          Range(last.classified) \subseteq {t \in last.snapshot : AboveThreshold(t)})
  /\ [][\A m \in DOMAIN mcyc :
          (mcyc[m].pc = "getMempool" /\ mcyc'[m].pc = "fetchBatch") =>
            Range(mcyc'[m].queue) =
              {t \in mempool : AboveThreshold(t) /\ t \notin processedTxids}]_vars

\* C12 witness: a scan ended whose snapshot held a txid below the threshold
\* and one above it; the one above was classified and is processed, the one
\* below is not processed.
C12_BelowSkipped ==
  /\ last.kind = "mempoolScanned"
  /\ \E t, u \in last.snapshot :
       /\ ~AboveThreshold(t)
       /\ AboveThreshold(u)
       /\ u \in Range(last.classified)
       /\ u \in processedTxids
       /\ t \notin processedTxids

NoDuplicates(s) == \A i, j \in DOMAIN s : i # j => s[i] # s[j]

\* a step in which the fetch of the current batch of cycle m fails
FetchFails(m) ==
  /\ mcyc[m].pc = "fetchBatch"
  /\ mcyc'[m] # mcyc[m]
  /\ mcyc'[m].pc \notin {"batchDelay", "fetchGroup"}

\* a step in which cycle m ends after its batches
ScanEnds(m) ==
  /\ mcyc[m].pc \in {"fetchBatch", "batchDelay"}
  /\ mcyc'[m].pc = "idle"

\* C13: the first and the second failure of a batch are followed by another
\* attempt on the same batch, what a later attempt fetches is kept, and when
\* the scan ends every fetched txid is classified exactly once and every mint
\* among them is recorded in pendingMintTransactions.
C13_RetryThenRecord ==
  /\ [][\A m \in DOMAIN mcyc :
          (FetchFails(m) /\ mcyc[m].retryCount < 2) =>
            /\ mcyc'[m].pc = "retryDelay"
            /\ mcyc'[m].i = mcyc[m].i
            /\ mcyc'[m].queue = mcyc[m].queue
            /\ mcyc'[m].details = mcyc[m].details
            /\ mcyc'[m].retryCount = mcyc[m].retryCount + 1]_vars
  /\ [][\A m \in DOMAIN mcyc :
          (mcyc[m].pc = "retryDelay" /\ mcyc'[m] # mcyc[m]) =>
            mcyc'[m] = [mcyc[m] EXCEPT !.pc = "fetchBatch"]]_vars
  /\ [][\A m \in DOMAIN mcyc :
          ScanEnds(m) =>
            /\ Range(last'.classified) = mcyc[m].details
            /\ NoDuplicates(last'.classified)
            /\ \A t \in mcyc[m].details :
                 isDieselMintTransaction(TxCatalog[t]) =>
                   /\ t \in DOMAIN pendingMintTransactions'
                   /\ pendingMintTransactions'[t].timestamp = now]_vars

\* C13 witness: a scan of a single batch ended after the batch had failed
\* twice and was fetched by the third attempt, and a mint of the batch is
\* pending and processed.
C13_ThirdAttemptRecorded ==
  /\ last.kind = "mempoolScanned"
  /\ last.retryCount = 2
  /\ Cardinality({t \in last.snapshot : AboveThreshold(t)}) <= batchSize
  /\ \E t \in Range(last.classified) :
       /\ t \in DOMAIN pendingMintTransactions
       /\ t \in processedTxids

\* C14: after a block has been processed no txid of the block is in
\* pendingMintTransactions, whatever mempool scan is in flight; in particular
\* no txid that processBlock logged to dieselMintTransactions is pending.
C14_ConfirmedNotPending ==
  \A i \in DOMAIN dieselMintTransactions :
    dieselMintTransactions[i].txid \notin DOMAIN pendingMintTransactions

\* C15: highestGasRate changes only in a step that processes a block, and
\* its new txid is the winner of that block (the diesel-won event of the
\* step); a step of a mempool scan never replaces it.
C15_RecordIsConfirmedWinner ==
  [][highestGasRate' # highestGasRate =>
       \E i \in DOMAIN emitted' :
         /\ emitted'[i].type = "diesel-won"
         /\ emitted'[i].txid = highestGasRate'.txid
         /\ emitted'[i].height = highestGasRate'.blockHeight]_vars

\* C16: after any sequence of start() and stop() calls, including calls made
\* while an earlier start() awaits the ledger, at most one block-scan timer
\* and at most one mempool-scan timer are active, and timers are active only
\* while isRunning is true.
C16_TimersFollowRunning ==
  /\ Cardinality(blockTimers) <= 1
  /\ Cardinality(mempoolTimers) <= 1
  /\ (blockTimers \cup mempoolTimers) # {} => isRunning

\* C17: when getBlockCount fails in start(), the service is stopped: isRunning
\* is false and no block-scan or mempool-scan timer is scheduled.
C17_FailedStartIsStopped ==
  last.kind = "startFailed" =>
    /\ ~isRunning
    /\ blockTimers = {}
    /\ mempoolTimers = {}

\* C18: getRecentMintTransactions(limit) returns, for every limit >= 0,
\* exactly min(limit, length) entries, which are the newest entries of
\* dieselMintTransactions in their order; the log itself is left unchanged.
C18_RecentIsSuffix ==
  /\ [](last.kind = "recentCalled" =>
          /\ Len(recent.result) = Min(recent.limit, Len(dieselMintTransactions))
          /\ recent.result = LastN(dieselMintTransactions, recent.limit))
  /\ [][recent' # recent => dieselMintTransactions' = dieselMintTransactions]_vars

\* the bytes of a script, each a pair of digits
bytesOf(hex) == [i \in 1..(Len(hex) \div 2) |-> <<hex[2 * i - 1], hex[2 * i]>>]

\* the output is a data carrier: its script starts with the OP_RETURN byte
IsDataCarrier(o) == bytesOf(o.hex) # <<>> /\ bytesOf(o.hex)[1] = OpReturnHex

\* the bytes that follow OP_RETURN hold the bytes of the signature in a row
CarriesSignature(o) ==
  LET data == Tail(bytesOf(o.hex))
      sig == bytesOf(DieselPattern)
  IN  \E k \in 0..(Len(data) - Len(sig)) : SubSeq(data, k + 1, k + Len(sig)) = sig

\* C19: isDieselMintTransaction returns true iff at least one output is a
\* data-carrier output whose payload contains the mint-signature byte
\* sequence; nothing but the outputs decides the result.
C19_ExactSignature ==
  last.kind = "classified" =>
    (clsResult <=>
       \E i \in DOMAIN clsTx.vout :
         IsDataCarrier(clsTx.vout[i]) /\ CarriesSignature(clsTx.vout[i]))

\* C20: when a mempool scan ends, every txid it fetched and classified, mint
\* or not, that is in its snapshot is in processedTxids, so the next scan
\* does not fetch it again.
C20_FetchedStaysProcessed ==
  last.kind = "mempoolScanned" =>
    \A t \in Range(last.classified) : t \in last.snapshot => t \in processedTxids

\* two fee rates are the same value
RateEq(a, b) ==
  IF IsNull(a) \/ IsNull(b) THEN IsNull(a) /\ IsNull(b) ELSE a.n * b.d = b.n * a.d

\* C21: the feeRate stored with every entry of pendingMintTransactions is
\* the rate calculateFeeRate computes on the fetched transaction, not the
\* approximate rate of the mempool snapshot entry.
C21_PendingRateIsPrecise ==
  \A t \in DOMAIN pendingMintTransactions :
    RateEq(pendingMintTransactions[t].feeRate, calculateFeeRate(TxCatalog[t]))

\* C22: processing one block appends to dieselMintTransactions the winner of
\* the block and nothing else: at most one entry for a block, none for a
\* block without a winner.
C22_OnlyWinnerLogged ==
  [][last'.kind = "blockProcessed" =>
       LET won == SelectSeq(emitted', LAMBDA e : e.type = "diesel-won")
           added == [i \in DOMAIN won |->
                       MintInfo(won[i].txid, won[i].height, won[i].feeRate)]
       IN  /\ Len(won) <= 1
           /\ dieselMintTransactions' =
                LastN(dieselMintTransactions \o added, maxHistoryRecords)]_vars

\* C23: when a block is processed, highestGasRate is replaced by the winner
\* and one highest-gas-updated event is emitted exactly when the winner's fee
\* rate is strictly greater than the record's; a winner of an equal or lower
\* rate, or no winner, leaves the record unchanged and emits no such event.
C23_StrictlyGreaterReplaces ==
  [][last'.kind = "blockProcessed" =>
       LET won == SelectSeq(emitted', LAMBDA e : e.type = "diesel-won")
           upd == SelectSeq(emitted', LAMBDA e : e.type = "highest-gas-updated")
       IN  IF won # <<>> /\ RGt(won[1].feeRate, highestGasRate.feeRate)
           THEN /\ highestGasRate' =
                     Highest(won[1].txid, won[1].feeRate, last'.height)
                /\ Len(upd) = 1
                /\ upd[1].txid = won[1].txid
                /\ upd[1].feeRate = won[1].feeRate
           ELSE /\ highestGasRate' = highestGasRate
                /\ upd = <<>>]_vars

\* C23 witness: a block was processed whose winner has exactly the fee rate
\* of the record; the record still names the earlier transaction and no
\* highest-gas-updated event was emitted.
C23_EqualWinnerKept ==
  /\ last.kind = "blockProcessed"
  /\ EventsOf("diesel-won") # <<>>
  /\ RateEq(EventsOf("diesel-won")[1].feeRate, highestGasRate.feeRate)
  /\ highestGasRate.txid # EventsOf("diesel-won")[1].txid
  /\ highestGasRate.blockHeight < last.height
  /\ EventsOf("highest-gas-updated") = <<>>

\* C24: a block-scan cycle whose getBlockCount answers with a height that is
\* not above currentBlockHeight ends at once and is a no-op: currentBlockHeight,
\* pendingMintTransactions, processedTxids, dieselMintTransactions and
\* highestGasRate are unchanged and no event is emitted.
C24_NoNewBlockIsNoOp ==
  [][\A c \in DOMAIN bcyc :
       (bcyc[c].pc = "getCount" /\ bcyc'[c] # bcyc[c] /\ tip <= currentBlockHeight) =>
         /\ bcyc'[c] = IdleB
         /\ currentBlockHeight' = currentBlockHeight
         /\ trackerVars' = trackerVars
         /\ emitted' = <<>>]_vars

\* C24 witness: a cycle found no new block while a candidate was pending, and
\* the candidate is still pending.
C24_IdleCycleKeptPending ==
  /\ last.kind = "noNewBlock"
  /\ DOMAIN pendingMintTransactions # {}
  /\ processedTxids # {}

\* cycle c is inside processBlock
InProcessBlock(c) == bcyc[c].pc \in {"getHash", "getBlock"}

\* C25: the heights handed to processBlock are strictly increasing, so no
\* height is handed to processBlock twice: no two calls of processBlock for
\* the same height are in flight together, also when a timer tick fires while
\* an earlier cycle is still running.
C25_EachHeightOnce ==
  \A c, d \in DOMAIN bcyc :
    (c # d /\ InProcessBlock(c) /\ InProcessBlock(d)) =>
      bcyc[c].height # bcyc[d].height

\* the wait before the first retry of a batch, in milliseconds
retryBackoffBaseMs == 1000

\* C26: a batch is attempted at most maxRetries (3) times, the wait before
\* its first retry is retryBackoffBaseMs and the wait before each later retry
\* is twice the wait before it: retry number k waits
\* retryBackoffBaseMs * 2^(k - 1).
C26_BackoffDoubles ==
  /\ [](\A m \in DOMAIN mcyc : mcyc[m].retryCount < maxRetries)
  /\ [](\A m \in DOMAIN mcyc :
          mcyc[m].pc = "retryDelay" =>
            mcyc[m].wait = retryBackoffBaseMs * 2 ^ (mcyc[m].retryCount - 1))
  /\ [][\A m \in DOMAIN mcyc :
          (FetchFails(m) /\ mcyc'[m].pc = "retryDelay") =>
            mcyc'[m].wait = IF mcyc[m].retryCount = 0
                            THEN retryBackoffBaseMs
                            ELSE 2 * mcyc[m].wait]_vars

\* C26 witness: a batch has failed twice and waits before its third attempt
\* twice as long as before its second.
C26_SecondWaitDoubled ==
  \E m \in DOMAIN mcyc :
    /\ mcyc[m].pc = "retryDelay"
    /\ mcyc[m].retryCount = 2
    /\ mcyc[m].wait = 2 * retryBackoffBaseMs

\* a step in which cycle m gives up its current batch
BatchGivenUp(m) == FetchFails(m) /\ mcyc'[m].pc # "retryDelay"

\* C27: a batch is given up only at its third failure; the scan then goes on
\* with the next batch when there is one, keeps what it fetched before, and
\* adds no txid of the batch to processedTxids; no txid a scan queued and did
\* not fetch is in processedTxids when the scan ends, processedTxids grows
\* only at the end of a scan, and every scan that obtains a snapshot queues
\* every txid of the mempool above the threshold that is not in
\* processedTxids, so it queues again what was given up.
C27_GivenUpBatchDeferred ==
  /\ [][\A m \in DOMAIN mcyc :
          BatchGivenUp(m) =>
            /\ mcyc[m].retryCount = maxRetries - 1
            /\ Range(txBatch(mcyc[m].queue, mcyc[m].i)) \cap processedTxids' = {}
            /\ IF mcyc[m].i + 1 < batchCount(mcyc[m].queue)
               THEN /\ mcyc'[m].pc = "fetchBatch"
                    /\ mcyc'[m].i = mcyc[m].i + 1
                    /\ mcyc'[m].retryCount = 0
                    /\ mcyc'[m].queue = mcyc[m].queue
                    /\ mcyc'[m].details = mcyc[m].details
                    /\ processedTxids' = processedTxids
               ELSE /\ mcyc'[m].pc = "idle"
                    /\ last'.kind = "mempoolScanned"
                    /\ Range(last'.classified) = mcyc[m].details]_vars
  /\ [][\A m \in DOMAIN mcyc :
          ScanEnds(m) =>
            (Range(mcyc[m].queue) \ mcyc[m].details) \cap processedTxids' = {}]_vars
  /\ [][(\E t \in processedTxids' : t \notin processedTxids) =>
          \E m \in DOMAIN mcyc : ScanEnds(m)]_vars
  /\ [][\A m \in DOMAIN mcyc :
          (/\ mcyc[m].pc = "getMempool"
           /\ mcyc'[m].pc = "fetchBatch" \/ last'.kind = "mempoolScanned") =>
            \A t \in mempool :
              (AboveThreshold(t) /\ t \notin processedTxids) =>
                t \in Range(mcyc'[m].queue)]_vars

\* C27 witness: the scan of a snapshot with more than one batch ended when
\* its last batch failed for the third time; a txid of the snapshot above the
\* threshold is still in the mempool, was not classified and is not in
\* processedTxids, while a txid of an earlier batch was classified.
C27_DeferredAfterThirdFailure ==
  /\ last.kind = "mempoolScanned"
  /\ last.retryCount = maxRetries
  /\ last.classified # <<>>
  /\ \E t \in last.snapshot \cap mempool :
       /\ AboveThreshold(t)
       /\ t \notin Range(last.classified)
       /\ t \notin processedTxids

----------------------------------------------------------------------------
(* The fetches of getBatchMempoolTransactions one by one, while the        *)
(* mempool timer can start a scan before the scan in flight has ended      *)

\* 1, 5 and 7 are above the threshold of the snapshot filter
FetchPool == {1, 5, 7}

InitFetch ==
  /\ InitMonitor(1, 1, 2)
  /\ tip = 0
  /\ chain = <<>>
  /\ mempool = {}
  /\ pool = FetchPool
  /\ now = StartTime
  /\ feeTx = NoFeeTx
  /\ clsTx = NoClsTx

NextFetch ==
  \/ \E t \in TxIds : MempoolEnter(t)
  \/ StartCall
  \/ \E s \in DOMAIN starts : StartGotHeight(s)
  \/ \E c \in DOMAIN bcyc : BlockCountOk(c)
  \/ MempoolTick
  \/ \E m \in DOMAIN mcyc : MempoolSnapshotOk(m)
  \/ \E m \in DOMAIN mcyc : BatchSnapshotOk(m)
  \/ \E m \in DOMAIN mcyc : \E t \in TxIds : \E ok \in BOOLEAN : FetchSettle(m, t, ok)
  \/ \E m \in DOMAIN mcyc : GroupDelayDone(m)
  \/ \E m \in DOMAIN mcyc : BatchDelayDone(m)

SpecFetch == InitFetch /\ [][NextFetch]_vars

\* the getRawTransaction calls pending for the scans 1..n
RECURSIVE InFlightUpTo(_)
InFlightUpTo(n) ==
  IF n = 0 THEN 0 ELSE Cardinality(mcyc[n].inflight) + InFlightUpTo(n - 1)

\* C28: the getRawTransaction calls pending on behalf of mempool scanning are
\* never more than batchConcurrency, and a scan has calls pending only while
\* it waits for the group it requested.
C28_FetchesBounded ==
  /\ InFlightUpTo(Cardinality(DOMAIN mcyc)) <= batchConcurrency
  /\ \A m \in DOMAIN mcyc :
       /\ mcyc[m].pc # "fetchGroup" => mcyc[m].inflight = {}
       /\ Cardinality(mcyc[m].inflight) <= batchConcurrency

\* s lists the K pending entries of highest fee rate, highest first, and no
\* entry without a rate
IsTopK(s, pending) ==
  /\ Len(s) = Min(TopK, Cardinality({t \in DOMAIN pending : ~IsNull(pending[t].feeRate)}))
  /\ \A i \in DOMAIN s :
       /\ s[i].txid \in DOMAIN pending
       /\ s[i].feeRate = pending[s[i].txid].feeRate
       /\ ~IsNull(s[i].feeRate)
  /\ \A i, j \in DOMAIN s : i < j =>
       /\ s[i].txid # s[j].txid
       /\ RGe(s[i].feeRate, s[j].feeRate)
  /\ \A t \in DOMAIN pending :
       (~IsNull(pending[t].feeRate) /\ \A i \in DOMAIN s : s[i].txid # t) =>
         \A i \in DOMAIN s : RGe(s[i].feeRate, pending[t].feeRate)

\* C29: a mempool scan that obtained a snapshot ends with exactly one
\* mempool-update event; its count is the size of pendingMintTransactions and
\* its list holds the 3 pending entries of highest fee rate, highest first.
C29_ScanEmitsUpdate ==
  last.kind = "mempoolScanned" =>
    /\ Len(emitted) = 1
    /\ emitted[1].type = "mempool-update"
    /\ emitted[1].count = Cardinality(DOMAIN pendingMintTransactions)
    /\ IsTopK(emitted[1].top, pendingMintTransactions)

\* C30: when a block has been processed, every entry of
\* pendingMintTransactions whose txid is still in the mempool and is not in
\* that block is still pending, unchanged.
C30_UnconfirmedStaysPending ==
  [][last'.kind = "blockProcessed" =>
       \A t \in DOMAIN pendingMintTransactions :
         (t \in mempool /\ t \notin Range(chain[last'.height])) =>
           /\ t \in DOMAIN pendingMintTransactions'
           /\ pendingMintTransactions'[t] = pendingMintTransactions[t]]_vars

\* C31: a scan that obtains a snapshot queues for fetching every txid of the
\* snapshot above the threshold that is in processedTxids and that the
\* snapshot of an earlier scan did not hold.
C31_ReappearingIsNew ==
  [][\A m \in DOMAIN mcyc :
       (/\ mcyc[m].pc = "getMempool"
        /\ mcyc'[m].pc = "fetchBatch" \/ last'.kind = "mempoolScanned") =>
         \A t \in absent \cap mempool :
           AboveThreshold(t) => t \in Range(mcyc'[m].queue)]_vars

\* C32: what calculateFeeRate returns is null or a number greater than 0,
\* never 0, a negative number or NaN, and the call changes nothing else.
C32_PositiveOrNull ==
  /\ [](last.kind = "feeComputed" =>
          /\ ~IsNaN(feeResult)
          /\ IsNull(feeResult) \/ RGtInt(feeResult, 0))
  /\ [][last'.kind = "feeComputed" =>
          UNCHANGED <<ledgerVars, currentBlockHeight, trackerVars, lifeVars,
                      bcyc, mcyc, feeTx>>]_vars

----------------------------------------------------------------------------
(* One scan at a time with getBatchMempoolTransactions step by step, while *)
(* transactions leave the mempool and calls of the node fail               *)

InitPartial ==
  /\ InitMonitor(1, 1, 1)
  /\ tip = 0
  /\ chain = <<>>
  /\ mempool = {}
  /\ pool = FetchPool
  /\ now = StartTime
  /\ feeTx = NoFeeTx
  /\ clsTx = NoClsTx

NextPartial ==
  \/ \E t \in TxIds : MempoolEnter(t)
  \/ \E t \in TxIds : MempoolDrop(t)
  \/ StartCall
  \/ \E s \in DOMAIN starts : StartGotHeight(s)
  \/ \E c \in DOMAIN bcyc : BlockCountOk(c)
  \/ MempoolTick
  \/ \E m \in DOMAIN mcyc : MempoolSnapshotOk(m)
  \/ \E m \in DOMAIN mcyc : BatchSnapshotOk(m)
  \/ \E m \in DOMAIN mcyc : \E t \in TxIds : \E ok \in BOOLEAN : FetchSettle(m, t, ok)
  \/ \E m \in DOMAIN mcyc : GroupDelayDone(m)
  \/ \E m \in DOMAIN mcyc : BatchDelayDone(m)
  \/ \E m \in DOMAIN mcyc : BatchFail(m)
  \/ \E m \in DOMAIN mcyc : RetryDelayDone(m)

SpecPartial == InitPartial /\ [][NextPartial]_vars

\* the ids the batch calls of scan m have fetched so far
Fetched(m) == mcyc[m].details \cup mcyc[m].result

\* C33: once its snapshot call has answered, getBatchMempoolTransactions
\* does not fail: a fetch that fails leaves the map as it is and the call goes
\* on, a fetch that succeeds adds its id, and the map holds only ids of the
\* requested batch that the snapshot held; the call fails only while it waits
\* for the snapshot.
C33_PartialSuccess ==
  /\ [](\A m \in DOMAIN mcyc :
          /\ mcyc[m].result \subseteq Range(mcyc[m].validTxids)
          /\ mcyc[m].pc \in {"fetchGroup", "groupDelay"} =>
               /\ Range(mcyc[m].validTxids)
                    \subseteq Range(txBatch(mcyc[m].queue, mcyc[m].i)) \cap mcyc[m].snapshot
               /\ mcyc[m].inflight \cap mcyc[m].result = {})
  /\ [][\A m \in DOMAIN mcyc :
          (mcyc[m].pc = "fetchGroup" /\ mcyc'[m] # mcyc[m]) =>
            /\ mcyc'[m].pc \in {"fetchGroup", "groupDelay", "batchDelay"}
            /\ mcyc'[m].retryCount = mcyc[m].retryCount
            /\ last'.kind \in {"fetchOk", "fetchFailed"}
            /\ last'.snapshot \subseteq mcyc[m].inflight
            /\ Fetched(m)' = IF last'.kind = "fetchOk"
                             THEN Fetched(m) \cup last'.snapshot
                             ELSE Fetched(m)]_vars
  /\ [][\A m \in DOMAIN mcyc :
          (mcyc'[m].retryCount > mcyc[m].retryCount \/ BatchGivenUp(m)) =>
            mcyc[m].pc = "fetchBatch" /\ mcyc[m].inflight = {}]_vars

\* C33 witness: a batch call of two ids has returned after one fetch failed
\* and one succeeded: the scan holds the one and not the other.
C33_OneOfTwoFetched ==
  \E m \in DOMAIN mcyc :
    /\ mcyc[m].pc = "batchDelay"
    /\ mcyc[m].i = 0
    /\ last.kind = "fetchFailed"
    /\ \E t, u \in Range(txBatch(mcyc[m].queue, 0)) \cap mcyc[m].snapshot :
         /\ t \in mcyc[m].details
         /\ u \notin mcyc[m].details
         /\ u \in last.snapshot

----------------------------------------------------------------------------
(* BitcoinRPC.call on its own (bitcoinRPC.js lines 23-65): the request,    *)
(* the retries after a transport failure and the error thrown              *)

RpcMethods == {"getblockcount", "getblockhash", "getblock", "getrawtransaction",
               "getrawmempool"}

\* error.code of a failed request, or "none" for an error without a code
\* (an HTTP status, the error member of the response, line 42)
TransportCodes == {"ECONNREFUSED", "ETIMEDOUT", "ECONNABORTED"}
ErrorCodes == TransportCodes \cup {"ECONNRESET", "none"}

\* every error is retried
isTransportFailureAny(code) == TRUE

\* lines 49-51
isTransportFailure(code) == code \in TransportCodes

\* line 48 with lines 49-51
retryCall(retryCount, code) ==
  retryCount < rpcMaxRetries /\ isTransportFailure(code)

\* line 56: 1000 * Math.pow(2, retryCount)
rpcRetryDelay(retryCount) == 1000 * 2 ^ retryCount

InitRpc ==
  /\ InitMonitor(1, 1, 1)
  /\ tip = 0
  /\ chain = <<>>
  /\ mempool = {}
  /\ pool = {}
  /\ now = StartTime
  /\ feeTx = NoFeeTx
  /\ clsTx = NoClsTx

rpcFrame ==
  UNCHANGED <<ledgerVars, currentBlockHeight, trackerVars, lifeVars, bcyc, mcyc,
              emitted, last, absent, feeTx, feeResult, recent, clsTx, clsResult>>

\* call(method, params) up to the await of line 25
RpcCall(method) ==
  /\ rpc.pc \in {"idle", "returned", "thrown"}
  /\ rpc.calls < MaxRpcCalls
  /\ rpc' = [pc |-> "request", method |-> method, retryCount |-> 0, wait |-> 0,
             error |-> "none", rpcId |-> rpc.rpcId + 1, calls |-> rpc.calls + 1]
  /\ rpcFrame

\* the node answers with a result (lines 41-45)
RpcAnswer ==
  /\ rpc.pc = "request"
  /\ rpc' = [rpc EXCEPT !.pc = "returned"]
  /\ rpcFrame

\* the request fails, or the 10 s of line 38 are over, or the answer holds
\* an error (lines 46-64): wait and call again, or throw the error
RpcError(code) ==
  /\ rpc.pc = "request"
  /\ rpc' = IF retryCall(rpc.retryCount, code)
            THEN [rpc EXCEPT !.pc = "backoff", !.error = code,
                             !.wait = rpcRetryDelay(rpc.retryCount)]
            ELSE [rpc EXCEPT !.pc = "thrown", !.error = code]
  /\ rpcFrame

\* the wait of line 57 is over: call(method, params, retryCount + 1)
RpcBackoffDone ==
  /\ rpc.pc = "backoff"
  /\ rpc' = [rpc EXCEPT !.pc = "request", !.retryCount = rpc.retryCount + 1,
                        !.wait = 0, !.error = "none", !.rpcId = rpc.rpcId + 1]
  /\ rpcFrame

\* what the node and the timers do to a call in flight
RpcSettle ==
  \/ RpcAnswer
  \/ \E code \in ErrorCodes : RpcError(code)
  \/ RpcBackoffDone

NextRpc ==
  \/ \E method \in RpcMethods : RpcCall(method)
  \/ RpcAnswer
  \/ \E code \in ErrorCodes : RpcError(code)
  \/ RpcBackoffDone

\* every request ends within the timeout of line 38 and every wait ends
SpecRpc == InitRpc /\ [][NextRpc]_vars /\ WF_vars(RpcSettle)

\* C34: a call makes at most rpcMaxRetries + 1 = 3 requests; it waits and
\* calls again only after a transport failure (connection refused, timeout,
\* aborted), and then for 1000 * 2^retryCount ms; any other error, and the
\* error of the third request, is thrown to the caller; every call returns
\* or throws.
C34_CallTerminates ==
  /\ [](rpc.retryCount <= rpcMaxRetries)
  /\ [](rpc.pc = "backoff" =>
          /\ rpc.error \in TransportCodes
          /\ rpc.retryCount < rpcMaxRetries
          /\ rpc.wait = 1000 * 2 ^ rpc.retryCount)
  /\ [][(rpc.pc = "request" /\ rpc'.pc \in {"backoff", "thrown"}) =>
          (rpc'.pc = "thrown" <=>
             (rpc'.error \notin TransportCodes \/ rpc.retryCount = rpcMaxRetries))]_vars
  /\ [][(rpc.pc = "backoff" /\ rpc' # rpc) =>
          /\ rpc'.pc = "request"
          /\ rpc'.method = rpc.method
          /\ rpc'.retryCount = rpc.retryCount + 1]_vars
  /\ (rpc.pc \in {"request", "backoff"}) ~> (rpc.pc \in {"returned", "thrown"})

\* C34 witness: the third request of a call timed out and the error was
\* thrown.
C34_ThrownAfterThirdRequest ==
  /\ rpc.pc = "thrown"
  /\ rpc.retryCount = rpcMaxRetries
  /\ rpc.error = "ECONNABORTED"

----------------------------------------------------------------------------
(* The two classifiers of the mempool path on outputs of every shape they  *)
(* read: the fields of bitcoind (scriptPubKey.type, .hex, .asm) and the    *)
(* flat fields scriptpubkey, scriptpubkey_type and scriptpubkey_asm        *)

\* an output: type and flatType are "none" when the field is missing, hex
\* and flatHex are <<>> when the field is missing or empty, asm and flatAsm
\* say whether the field starts with 'OP_RETURN'
ShapeOut(type, hex, asm, flatType, flatHex, flatAsm) ==
  [type |-> type, hex |-> hex, asm |-> asm,
   flatType |-> flatType, flatHex |-> flatHex, flatAsm |-> flatAsm]

\* line 592: vout.scriptPubKey?.hex || vout.scriptpubkey || ''
hexDataOf(o) == IF o.hex # <<>> THEN o.hex ELSE o.flatHex

\* lines 592-610 on one output
isDieselOutput(o) ==
  /\ \/ o.type = "nulldata"
     \/ o.flatType = "op_return"
     \/ startsWith(hexDataOf(o), OpReturnHex)
  /\ includes(hexDataOf(o), DieselPattern)

\* isDieselMintTransaction (lines 580-627) on outputs of every shape
isDieselMintShapes(tx) == \E i \in DOMAIN tx.vout : isDieselOutput(tx.vout[i])

\* hasOpReturn (lines 219-261) on outputs of every shape
hasOpReturnShapes(tx) ==
  \E i \in DOMAIN tx.vout :
    LET o == tx.vout[i]
    IN  \/ o.flatType = "op_return"
        \/ o.type = "nulldata"
        \/ o.flatAsm
        \/ o.asm
        \/ startsWith(o.hex, OpReturnHex)

\* outputs of a transaction drawn for the two classifiers
MaxShapeOutputs == 1

ShapeHex == {<<>>, OpReturnHex, OpReturnHex \o DieselPattern, DieselPattern}

ShapeSpace ==
  {ShapeOut(type, hex, asm, flatType, flatHex, flatAsm) :
     type \in {"none", "nulldata", "pubkeyhash"}, hex \in ShapeHex,
     asm \in BOOLEAN, flatType \in {"none", "op_return", "p2pkh"},
     flatHex \in ShapeHex, flatAsm \in BOOLEAN}

ShapeTxSpace ==
  {[txid |-> 1, vin |-> <<>>, vout |-> vout] :
     vout \in SeqsUpTo(ShapeSpace, MaxShapeOutputs)}

InitShapes ==
  /\ InitMonitor(1, 1, 1)
  /\ tip = 0
  /\ chain = <<>>
  /\ mempool = {}
  /\ pool = {}
  /\ now = StartTime
  /\ feeTx = NoFeeTx
  /\ clsTx \in ShapeTxSpace

\* the test of scanMempool on a fetched transaction (lines 404-407):
\* hasOpReturn and then isDieselMintTransaction
MempoolClassifyCall ==
  /\ last = Quiet
  /\ clsResult' = (hasOpReturnShapes(clsTx) /\ isDieselMintShapes(clsTx))
  /\ last' = Last("mempoolClassified", 0, {})
  /\ UNCHANGED <<ledgerVars, currentBlockHeight, trackerVars, lifeVars, bcyc,
                 mcyc, emitted, absent, feeTx, feeResult, recent, clsTx, rpc>>

NextShapes == MempoolClassifyCall

SpecShapes == InitShapes /\ [][NextShapes]_vars

\* C35: the mempool scan takes a fetched transaction for a mint exactly when
\* isDieselMintTransaction alone, the test of the block scan (line 145),
\* does.
C35_SameClassification ==
  last.kind = "mempoolClassified" => (clsResult <=> isDieselMintShapes(clsTx))

\* C36: no step of a block-scan cycle lowers currentBlockHeight, whatever
\* cycles are in flight together (start() itself sets it to the tip).
C36_HeightNeverDecreases ==
  [][starts' = starts => currentBlockHeight' >= currentBlockHeight]_vars

\* C37: in every state the fee rate of every entry of
\* pendingMintTransactions is at most highestGasRate.feeRate.
C37_PendingBelowRecord ==
  \A t \in DOMAIN pendingMintTransactions :
    /\ ~IsNull(pendingMintTransactions[t].feeRate)
    /\ RGe(highestGasRate.feeRate, pendingMintTransactions[t].feeRate)

\* C37 witness: a scan recorded two mints; the record is the one of higher
\* rate and the other one is pending with a rate strictly below the record.
C37_LowerPendingSeen ==
  /\ last.kind = "mempoolScanned"
  /\ highestGasRate.txid \in DOMAIN pendingMintTransactions
  /\ \E t \in DOMAIN pendingMintTransactions :
       /\ t \in Range(last.classified)
       /\ t # highestGasRate.txid
       /\ RGt(highestGasRate.feeRate, pendingMintTransactions[t].feeRate)

\* C38: the events of the processing of one block are the new-mint events
\* first, then at most one diesel-won event; a highest-gas-updated event of
\* block processing comes directly after the diesel-won event of the same
\* txid and block.
C38_BlockEventOrder ==
  [][last'.kind = "blockProcessed" =>
       /\ Len(SelectSeq(emitted', LAMBDA e : e.type = "diesel-won")) <= 1
       /\ \A i, j \in DOMAIN emitted' :
            (emitted'[i].type = "new-mint" /\ emitted'[j].type = "diesel-won")
              => i < j
       /\ \A j \in DOMAIN emitted' :
            /\ emitted'[j].height = last'.height
            /\ emitted'[j].type = "highest-gas-updated" =>
                 /\ j > 1
                 /\ emitted'[j - 1].type = "diesel-won"
                 /\ emitted'[j - 1].txid = emitted'[j].txid
                 /\ emitted'[j - 1].height = emitted'[j].height]_vars

\* C38 witness: a block of two mints has been processed: two new-mint
\* events, then diesel-won, then highest-gas-updated.
C38_TwoMintsThenWinner ==
  /\ last.kind = "blockProcessed"
  /\ Len(emitted) = 4
  /\ emitted[1].type = "new-mint"
  /\ emitted[2].type = "new-mint"
  /\ emitted[3].type = "diesel-won"
  /\ emitted[4].type = "highest-gas-updated"

----------------------------------------------------------------------------
(* The mempool scan under fair scheduling: a request to the node answers   *)
(* or fails within its timeout (bitcoinRPC.js line 38) and a timer that    *)
(* was set fires (lines 362, 384), so a step of a running cycle that stays *)
(* possible is taken                                                       *)

ScanStep(m) ==
  \/ MempoolSnapshotFail(m)
  \/ MempoolSnapshotOk(m)
  \/ \E got \in SUBSET mempool : BatchOk(m, got)
  \/ BatchDelayDone(m)
  \/ BatchFail(m)
  \/ RetryDelayDone(m)

ScanPool == {1, 2, 5}

InitScan ==
  /\ InitMonitor(1, 1, 1)
  /\ tip = 0
  /\ chain = <<>>
  /\ mempool = {}
  /\ pool = ScanPool
  /\ now = StartTime
  /\ feeTx = NoFeeTx
  /\ clsTx = NoClsTx

SpecScan == InitScan /\ [][NextMempool]_vars /\ WF_vars(ScanStep(1))

ScanRunning == \E m \in DOMAIN mcyc : mcyc[m].pc # "idle"
ScanIdle == \A m \in DOMAIN mcyc : mcyc[m].pc = "idle"

\* C39: every mempool scan cycle that started ends; a batch fails at most
\* maxRetries times and is left at its first success, the batches of a scan
\* that reaches its end are ceil(Len(queue) / batchSize), and a cycle that
\* ends, by an exception or not, leaves the timers as they are.
C39_ScanTerminates ==
  /\ ScanRunning ~> ScanIdle
  /\ [](\A m \in DOMAIN mcyc : mcyc[m].retryCount < maxRetries)
  /\ [][\A m \in DOMAIN mcyc :
          /\ (mcyc[m].pc = "fetchBatch" /\ mcyc'[m].pc = "batchDelay") =>
               /\ mcyc'[m].i = mcyc[m].i
               /\ mcyc'[m].retryCount = mcyc[m].retryCount
          /\ (mcyc[m].pc = "batchDelay" /\ mcyc'[m].pc = "fetchBatch") =>
               /\ mcyc'[m].i = mcyc[m].i + 1
               /\ mcyc'[m].retryCount = 0
          /\ (FetchFails(m) /\ mcyc'[m].pc = "fetchBatch") =>
               /\ mcyc[m].retryCount = maxRetries - 1
               /\ mcyc'[m].i = mcyc[m].i + 1
          /\ ScanEnds(m) =>
               /\ (mcyc[m].i + 1) * batchSize >= Len(mcyc[m].queue)
               /\ mcyc[m].i * batchSize < Len(mcyc[m].queue)
          /\ (mcyc[m].pc # "idle" /\ mcyc'[m].pc = "idle") =>
               /\ mempoolTimers' = mempoolTimers
               /\ blockTimers' = blockTimers]_vars

\* C39 witness: a scan of more than one batch has ended; an earlier batch
\* was fetched and the last batch was given up after its third failure.
C39_EndedAfterGivenUpBatch ==
  /\ last.kind = "mempoolScanned"
  /\ last.retryCount = maxRetries
  /\ Len(last.classified) >= 1
  /\ ScanIdle

\* C40: when a mempool scan cycle ends after its eviction loop, every txid
\* of processedTxids is in the snapshot of that scan and is a key of
\* pendingMintTransactions.
C40_ProcessedArePendingInSnapshot ==
  [][\A m \in DOMAIN mcyc :
       ScanEnds(m) =>
         \A t \in processedTxids' :
           /\ t \in mcyc[m].snapshot
           /\ t \in DOMAIN pendingMintTransactions']_vars

\* C40 witness: a scan ended that had classified a transaction that is not
\* a mint, which is not processed any more, and a mint, which is.
C40_NonMintEvicted ==
  /\ last.kind = "mempoolScanned"
  /\ \E t \in Range(last.classified) :
       /\ ~isDieselMintTransaction(TxCatalog[t])
       /\ t \notin processedTxids
  /\ \E u \in Range(last.classified) :
       /\ u \in processedTxids
       /\ u \in DOMAIN pendingMintTransactions

====
